---- MODULE Spec2Model ----
(***************************************************************************)
(* Resilience primitives of osmoutil-go: the circuit breaker              *)
(* (circuitbreaker/circuitbreaker.go), the nonce tracker                   *)
(* (tx/nonce_tracker.go) and the asynchronous request processor            *)
(* (async/async_request_processor.go).  Each component has its own        *)
(* specification over its own variables; the variables of the other        *)
(* components stay at their initial values.                                *)
(***************************************************************************)
EXTENDS Integers, Sequences, FiniteSets, TLC

(***************************************************************************)
(* Bounds of the model.                                                    *)
(***************************************************************************)
\* concurrent callers of CircuitBreaker.Execute
NumProcs == 2
\* Execute calls started in one behaviour
MaxCalls == 5
\* IncrementAndGet and ForceRefetch calls started in one behaviour
MaxNtCalls == 4
\* Submit calls in one behaviour (the k-th submits the item with ID k)
MaxSubmits == 2
\* attempts RetryWithBackoff makes on one item
MaxAttempts == 2
\* characters in an error text or a pattern
MaxTextLen == 2
\* calls of the operation by one RetryWithBackoff
MaxOperationCalls == 3
\* clock ticks in one behaviour
MaxTicks == 3
\* the clock reading at construction; the zero time.Time is 0, far in the past
StartTime == 100

Procs == 1..NumProcs

\* what an operation returns: nil or one of two distinct errors
NoErr == "nil"
OpErrors == {"e1", "e2"}
Outcomes == {NoErr} \cup OpErrors

VARIABLES
    now,                \* the wall clock (time.Now())
    \* ---- circuitBreaker struct
    failureThreshold, resetTimeout, currentState, failureCount,
    lastFailureTime, successCount,
    \* ---- callers of Execute
    cbPc,               \* where each caller stands inside Execute
    cbErr,              \* the err its operation returned (a local of Execute)
    cbRet,              \* what its last Execute returned ("none" while running)
    cbInvoked,          \* whether its current/last Execute invoked the operation
    cbCalls,            \* Execute calls started so far
    \* ---- what the callbacks and the callers recorded
    stateChanges,       \* onStateChange calls: [n |-> how many, last |-> <<from, to>>]
    errorsSeen,         \* onError calls: [n |-> how many, last |-> err]
    cbReturns,          \* Execute calls returned: [ok, failed, rejected |-> how many,
                        \*   run |-> failures recorded since the last success]
    \* ---- NonceTracker struct
    nonceData, isFirstFetch, lastRefetch, forceRefetchInterval, refetchTimeout,
    mu,                 \* the caller holding n.mu (NoOwner when free)
    \* ---- the refetch in progress (refetchAndUpdateNonce)
    ntCtx,              \* its scope: [err |-> ctx.Err(), deadline |-> when it expires,
                        \*   early |-> it was done before fetchNonce had returned]
    ntCh,               \* its result channel ch (capacity 1)
    ntFetching,         \* whether its fetch goroutine is still inside fetchNonce
    ntSel,              \* the case its select was woken by ("none" while not woken)
    lateFetches,        \* fetch goroutines still running after their refetch returned
    \* ---- callers of the tracker
    ntPc,               \* where each caller stands
    ntRet,              \* what the last call to return returned, and to whom
    ntCalls,            \* calls started so far
    \* ---- what the callers and the fetch function recorded
    issued,             \* records returned by IncrementAndGet since the record
                        \* was last set (or construction), in order
    ntStats,            \* [fetchCalls, refetches, incs, incsAtRefetch, fetched,
                        \*  updated |-> the number last given to ForceUpdateNonce]
    \* ---- AsyncRequestProcessor struct
    requestChan, responseChan, retryConfig,
    bufferSize,         \* cap(requestChan) = cap(responseChan)
    responseClosed,     \* close(w.responseChan) has run
    ctxDone,            \* w.ctx is cancelled
    wg,                 \* the WaitGroup's counter
    \* ---- the worker goroutine (processLoop) and the caller of Stop
    wkPc,               \* where the worker stands ("none" before Start)
    wkMode,             \* the loop processRequest returns to: "loop" or "drain"
    wkReq,              \* the ID of the request being processed
    wkErr,              \* err of processRequest
    wkRetry,            \* RetryWithBackoff: [timer, after |-> when each fires,
                        \*   last |-> what the latest call of Process returned,
                        \*   interval, attempts]
    inFlight,           \* calls of Process that have not returned
    stopPc,             \* where Stop stands: "idle", "waiting" (in wg.Wait), "returned"
    \* ---- what the callers, the processing function and the consumer recorded
    submitted,          \* Submit calls: [n |-> how many, ok |-> what the last returned,
                        \*   late |-> one returned true after w.cancel()]
    accepted,           \* IDs for which Submit returned true, in order
    attempts,           \* calls of Process: [id, cancelled |-> w.ctx was done], in order
    sent,               \* IDs whose response was sent on responseChan, in order
    dropped,            \* IDs whose response was given up, in order
    closeSeen,          \* a consumer's receive found responseChan closed
    \* ---- one call of RetryWithBackoff
    rtArgs,             \* its arguments: [cfg, patterns |-> nonRetriablePatterns]
    rtCtxDone,          \* its ctx is cancelled
    rtLocal,            \* its locals: [pc, interval, timer, after |-> when each
                        \*   fires, err |-> what the attempt returned]
    rtRet,              \* what it returned (once rtLocal.pc = "returned")
    rtLog               \* what the operation recorded: [calls |-> how often it
                        \*   was called, oks |-> how often it returned nil,
                        \*   firstA |-> its first call returned the error "a"]

cbVars == <<failureThreshold, resetTimeout, currentState, failureCount,
            lastFailureTime, successCount, cbPc, cbErr, cbRet, cbInvoked,
            cbCalls, stateChanges, errorsSeen, cbReturns>>

ntVars == <<nonceData, isFirstFetch, lastRefetch, forceRefetchInterval,
            refetchTimeout, mu, ntCtx, ntCh, ntFetching, ntSel, lateFetches,
            ntPc, ntRet, ntCalls, issued, ntStats>>

apVars == <<requestChan, responseChan, retryConfig, bufferSize, responseClosed,
            ctxDone, wg, wkPc, wkMode, wkReq, wkErr, wkRetry, stopPc, submitted,
            accepted, attempts, sent, dropped, inFlight, closeSeen>>

rtVars == <<rtArgs, rtCtxDone, rtLocal, rtRet, rtLog>>

vars == <<now, cbVars, ntVars, apVars, rtVars>>

\* time.Since(t)
Since(t) == now - t

\* time passes
Tick ==
    /\ now < StartTime + MaxTicks
    /\ now' = now + 1

(***************************************************************************)
(* Circuit breaker                                                         *)
(***************************************************************************)
StateClosed == "CLOSED"
StateHalfOpen == "HALF_OPEN"
StateOpen == "OPEN"
States == {StateClosed, StateHalfOpen, StateOpen}

DefaultFailureThreshold == 5
DefaultResetTimeout == 60
\* successes in HalfOpen that close the breaker
SuccessesToClose == 2

ErrCircuitOpen == "circuit breaker is open"

\* Options a breaker is built with (non-positive ones select the defaults)
FailureThresholdOptions == {-1, 0, 1, 2}
ResetTimeoutOptions == {-1, 0, 1}

\* a New that replaces only a negative FailureThreshold
NewFailureThreshold_keepsZero(opt) ==
    IF opt < 0 THEN DefaultFailureThreshold ELSE opt

\* New: the struct built from the options
NewFailureThreshold(opt) == IF opt <= 0 THEN DefaultFailureThreshold ELSE opt
NewResetTimeout(opt) == IF opt <= 0 THEN DefaultResetTimeout ELSE opt

InitCB ==
    /\ \E ft \in FailureThresholdOptions : failureThreshold = NewFailureThreshold(ft)
    /\ \E rt \in ResetTimeoutOptions : resetTimeout = NewResetTimeout(rt)
    /\ currentState = StateClosed
    /\ failureCount = 0
    /\ successCount = 0
    /\ lastFailureTime = 0
    /\ cbPc = [p \in Procs |-> "idle"]
    /\ cbErr = [p \in Procs |-> NoErr]
    /\ cbRet = [p \in Procs |-> "none"]
    /\ cbInvoked = [p \in Procs |-> FALSE]
    /\ cbCalls = 0
    /\ stateChanges = [n |-> 0, last |-> <<>>]
    /\ errorsSeen = [n |-> 0, last |-> NoErr]
    /\ cbReturns = [ok |-> 0, failed |-> 0, rejected |-> 0, run |-> 0]

\* toState: the breaker after a transition request, as a record of the
\* fields it may write
CBFields(st, fc, sc, log) == [state |-> st, fc |-> fc, sc |-> sc, log |-> log]

\* toState without the test for the current state
toState_always(cur, newState) ==
    CBFields(newState, 0, 0, [n |-> cur.log.n + 1, last |-> <<cur.state, newState>>])

\* toState leaving the counters as they are
toState_keepsCounters(cur, newState) ==
    IF cur.state = newState
    THEN cur
    ELSE CBFields(newState, cur.fc, cur.sc,
                  [n |-> cur.log.n + 1, last |-> <<cur.state, newState>>])

toState(cur, newState) ==
    IF cur.state = newState
    THEN cur
    ELSE CBFields(newState, 0, 0,
                  [n |-> cur.log.n + 1, last |-> <<cur.state, newState>>])

\* onSuccess closing the breaker on the first HalfOpen success
onSuccess_closesAtOnce(cur) ==
    CASE cur.state = StateHalfOpen -> toState([cur EXCEPT !.sc = cur.sc + 1], StateClosed)
      [] cur.state = StateClosed -> [cur EXCEPT !.fc = 0]
      [] OTHER -> cur

\* onSuccess leaving the failure counter as it is
onSuccess_keepsCount(cur) ==
    CASE cur.state = StateHalfOpen ->
            LET inc == [cur EXCEPT !.sc = cur.sc + 1]
            IN  IF inc.sc >= SuccessesToClose THEN toState(inc, StateClosed) ELSE inc
      [] OTHER -> cur

\* onSuccess counting successes in every state but Closed
onSuccess_countsWhenOpen(cur) ==
    CASE cur.state = StateClosed -> [cur EXCEPT !.fc = 0]
      [] OTHER ->
            LET inc == [cur EXCEPT !.sc = cur.sc + 1]
            IN  IF inc.sc >= SuccessesToClose THEN toState(inc, StateClosed) ELSE inc

\* onSuccess
onSuccess(cur) ==
    CASE cur.state = StateHalfOpen ->
            LET inc == [cur EXCEPT !.sc = cur.sc + 1]
            IN  IF inc.sc >= SuccessesToClose THEN toState(inc, StateClosed) ELSE inc
      [] cur.state = StateClosed -> [cur EXCEPT !.fc = 0]
      [] OTHER -> cur

\* onFailure opening only above the threshold
onFailure_aboveThreshold(cur, threshold) ==
    LET inc == [cur EXCEPT !.fc = cur.fc + 1]
    IN  IF inc.state = StateClosed /\ inc.fc > threshold THEN toState(inc, StateOpen)
        ELSE IF inc.state = StateHalfOpen THEN toState(inc, StateOpen)
        ELSE inc

\* onFailure (the counter and the transition; the timestamp and onError are
\* written by HandleResult)
onFailure(cur, threshold) ==
    LET inc == [cur EXCEPT !.fc = cur.fc + 1]
    IN  IF inc.state = StateClosed /\ inc.fc >= threshold THEN toState(inc, StateOpen)
        ELSE IF inc.state = StateHalfOpen THEN toState(inc, StateOpen)
        ELSE inc

Current == CBFields(currentState, failureCount, successCount, stateChanges)

Store(next) ==
    /\ currentState' = next.state
    /\ failureCount' = next.fc
    /\ successCount' = next.sc
    /\ stateChanges' = next.log

\* allowRequest admitting as soon as the timeout is reached
allowRequest_atTimeout(st, elapsed, timeout) ==
    CASE st = StateClosed -> "admit"
      [] st = StateHalfOpen -> "admit"
      [] st = StateOpen -> IF elapsed >= timeout THEN "probe" ELSE "reject"
      [] OTHER -> "reject"

\* allowRequest applying the Open branch's timeout test to a Closed breaker
allowRequest_probesWhenClosed(st, elapsed, timeout) ==
    CASE st = StateHalfOpen -> "admit"
      [] st \in {StateClosed, StateOpen} ->
            IF elapsed > timeout THEN "probe" ELSE "reject"
      [] OTHER -> "reject"

\* allowRequest, the read under RLock: "admit", "reject" or "probe" (the
\* Open branch whose timeout has elapsed, which goes on to toHalfOpen)
allowRequest(st, elapsed, timeout) ==
    CASE st = StateClosed -> "admit"
      [] st = StateHalfOpen -> "admit"
      [] st = StateOpen -> IF elapsed > timeout THEN "probe" ELSE "reject"
      [] OTHER -> "reject"

\* Execute, first step: allowRequest reads the state under the read lock
AllowRequest(p) ==
    /\ cbPc[p] = "idle"
    /\ cbCalls < MaxCalls
    /\ cbCalls' = cbCalls + 1
    /\ cbInvoked' = [cbInvoked EXCEPT ![p] = FALSE]
    /\ LET d == allowRequest(currentState, Since(lastFailureTime), resetTimeout)
       IN  CASE d = "admit" ->
                    /\ cbPc' = [cbPc EXCEPT ![p] = "operation"]
                    /\ cbRet' = [cbRet EXCEPT ![p] = "none"]
                    /\ UNCHANGED cbReturns
             [] d = "probe" ->
                    /\ cbPc' = [cbPc EXCEPT ![p] = "toHalfOpen"]
                    /\ cbRet' = [cbRet EXCEPT ![p] = "none"]
                    /\ UNCHANGED cbReturns
             [] OTHER ->
                    /\ cbRet' = [cbRet EXCEPT ![p] = ErrCircuitOpen]
                    /\ cbReturns' = [cbReturns EXCEPT !.rejected = @ + 1]
                    /\ UNCHANGED cbPc
    /\ UNCHANGED <<now, failureThreshold, resetTimeout, currentState, failureCount,
                   lastFailureTime, successCount, cbErr, stateChanges, errorsSeen,
                   ntVars, apVars, rtVars>>

\* allowRequest, Open branch: the read lock is released, toHalfOpen takes the
\* write lock and requests HalfOpen, and allowRequest returns true
ToHalfOpen(p) ==
    /\ cbPc[p] = "toHalfOpen"
    /\ Store(toState(Current, StateHalfOpen))
    /\ cbPc' = [cbPc EXCEPT ![p] = "operation"]
    /\ UNCHANGED <<now, failureThreshold, resetTimeout, lastFailureTime, cbErr,
                   cbRet, cbInvoked, cbCalls, errorsSeen, cbReturns, ntVars, apVars, rtVars>>

\* Execute: the operation runs and returns err
Operation(p) ==
    /\ cbPc[p] = "operation"
    /\ \E e \in Outcomes : cbErr' = [cbErr EXCEPT ![p] = e]
    /\ cbInvoked' = [cbInvoked EXCEPT ![p] = TRUE]
    /\ cbPc' = [cbPc EXCEPT ![p] = "handleResult"]
    /\ UNCHANGED <<now, failureThreshold, resetTimeout, currentState, failureCount,
                   lastFailureTime, successCount, cbRet, cbCalls, stateChanges,
                   errorsSeen, cbReturns, ntVars, apVars, rtVars>>

\* an onFailure that does not call onError
onError_notCalled(seen, err) == seen

\* onFailure, line 137: cb.onError(err), as what the callback has seen
onError(seen, err) == [n |-> seen.n + 1, last |-> err]

\* an Execute that hides the operation's error from its caller
executeReturns_nil(err) == NoErr

\* Execute, line 79: return err
executeReturns(err) == err

\* an onFailure that stamps the time only when it changes the state
failureTime_onChange(old, before, after, t) == IF after # before THEN t ELSE old

\* onFailure, line 129: cb.lastFailureTime = time.Now()
failureTime(old, before, after, t) == t

\* Execute: handleResult under the write lock, then return err
HandleResult(p) ==
    /\ cbPc[p] = "handleResult"
    /\ IF cbErr[p] # NoErr
       THEN /\ Store(onFailure(Current, failureThreshold))
            /\ lastFailureTime' = failureTime(lastFailureTime, currentState,
                                               currentState', now)
            /\ errorsSeen' = onError(errorsSeen, cbErr[p])
            /\ cbReturns' = [cbReturns EXCEPT !.failed = @ + 1, !.run = @ + 1]
       ELSE /\ Store(onSuccess(Current))
            /\ cbReturns' = [cbReturns EXCEPT !.ok = @ + 1, !.run = 0]
            /\ UNCHANGED <<lastFailureTime, errorsSeen>>
    /\ cbPc' = [cbPc EXCEPT ![p] = "idle"]
    /\ cbRet' = [cbRet EXCEPT ![p] = executeReturns(cbErr[p])]
    /\ cbErr' = [cbErr EXCEPT ![p] = NoErr]
    /\ UNCHANGED <<now, failureThreshold, resetTimeout, cbInvoked, cbCalls, ntVars,
                   apVars, rtVars>>

(***************************************************************************)
(* Nonce tracker                                                           *)
(***************************************************************************)
\* n.mu held by nobody
NoOwner == 0

\* NonceResponse{}
ZeroNonce == [Nonce |-> 0, Accnum |-> 0]

ErrThrottled == "failed to force refetch"
ErrFetch == "fetch error"
ErrDeadline == "context deadline exceeded"
ErrCanceled == "context canceled"

\* what fetchNonce may return: a record without error, or an error (with a
\* record the tracker must not use)
FetchValues == {[Nonce |-> 10, Accnum |-> 1], [Nonce |-> 20, Accnum |-> 2]}
FetchResults ==
    {[nonce |-> v, err |-> NoErr] : v \in FetchValues}
        \cup {[nonce |-> [Nonce |-> 10, Accnum |-> 1], err |-> ErrFetch]}

\* the durations a tracker is built with
ForceRefetchIntervals == {1, 2}
RefetchTimeouts == {0, 1}

\* no number has been given to ForceUpdateNonce yet
NoUpdate == -1

\* the numbers callers give to ForceUpdateNonce
UpdateNonces == {7, 30}

NoCtx == [err |-> "none", deadline |-> 0, early |-> FALSE]

\* a constructor that fetches the record before it returns
InitNT_prefetching ==
    /\ nonceData \in FetchValues
    /\ isFirstFetch = TRUE
    /\ lastRefetch = StartTime
    /\ forceRefetchInterval \in ForceRefetchIntervals
    /\ refetchTimeout \in RefetchTimeouts
    /\ mu = NoOwner
    /\ ntCtx = NoCtx
    /\ ntCh = <<>>
    /\ ntFetching = FALSE
    /\ ntSel = "none"
    /\ lateFetches = 0
    /\ ntPc = [p \in Procs |-> "idle"]
    /\ ntRet = [call |-> "none", by |-> NoOwner, nonce |-> ZeroNonce, err |-> NoErr]
    /\ ntCalls = 0
    /\ issued = <<>>
    /\ ntStats = [fetchCalls |-> 1, refetches |-> 0, incs |-> 0,
                  incsAtRefetch |-> 0, fetched |-> ZeroNonce, updated |-> NoUpdate]

\* NewNonceTracker
InitNT ==
    /\ nonceData = ZeroNonce
    /\ isFirstFetch = TRUE
    /\ lastRefetch = 0
    /\ forceRefetchInterval \in ForceRefetchIntervals
    /\ refetchTimeout \in RefetchTimeouts
    /\ mu = NoOwner
    /\ ntCtx = NoCtx
    /\ ntCh = <<>>
    /\ ntFetching = FALSE
    /\ ntSel = "none"
    /\ lateFetches = 0
    /\ ntPc = [p \in Procs |-> "idle"]
    /\ ntRet = [call |-> "none", by |-> NoOwner, nonce |-> ZeroNonce, err |-> NoErr]
    /\ ntCalls = 0
    /\ issued = <<>>
    /\ ntStats = [fetchCalls |-> 0, refetches |-> 0, incs |-> 0,
                  incsAtRefetch |-> 0, fetched |-> ZeroNonce, updated |-> NoUpdate]

\* a call's return, as its caller sees it
Returns(call, p, nonce, err) == [call |-> call, by |-> p, nonce |-> nonce, err |-> err]

\* a lock that excludes nobody
CanLock_noExclusion == TRUE

\* n.mu.Lock() returns only when nobody holds the lock
CanLock == mu = NoOwner

\* IncrementAndGet incrementing on the first call too
incrementAndGet_always(data, first) ==
    [data |-> [data EXCEPT !.Nonce = @ + 1], first |-> FALSE]

\* IncrementAndGet leaving the first-fetch flag set
incrementAndGet_keepsFlag(data, first) ==
    IF ~first
    THEN [data |-> [data EXCEPT !.Nonce = @ + 1], first |-> first]
    ELSE [data |-> data, first |-> TRUE]

\* IncrementAndGet, lines 88-93: the record and the flag after the call
incrementAndGet(data, first) ==
    IF ~first
    THEN [data |-> [data EXCEPT !.Nonce = @ + 1], first |-> first]
    ELSE [data |-> data, first |-> FALSE]

\* ForceRefetch going ahead as soon as the interval is reached
mayRefetch_atInterval(timeSince, interval) == timeSince >= interval

\* ForceRefetch, line 105: whether the refetch goes ahead
mayRefetch(timeSince, interval) == timeSince > interval

\* context.WithTimeout: the scope of a refetch started at time t
withTimeout(t, timeout) ==
    [err |-> IF timeout <= 0 THEN ErrDeadline ELSE "none", deadline |-> t + timeout,
     early |-> timeout <= 0]

\* the cases of the select (lines 134-137) that are ready
selectReady(ctx, ch) ==
    (IF ctx.err # "none" THEN {"done"} ELSE {}) \cup (IF ch # <<>> THEN {"ch"} ELSE {})

\* a refetch is in progress / is blocked inside the select
Refetching == \E p \in Procs : ntPc[p] \in {"select", "blocked"}
Blocked == \E p \in Procs : ntPc[p] = "blocked"

\* a blocked select that nothing has woken yet is woken by case c
wake(c) == IF Blocked /\ ntSel = "none" THEN c ELSE ntSel

ntOthers == <<cbVars, apVars, rtVars>>

\* IncrementAndGet: n.mu.Lock()
IncLock(p) ==
    /\ ntPc[p] = "idle"
    /\ ntCalls < MaxNtCalls
    /\ CanLock
    /\ mu' = p
    /\ ntPc' = [ntPc EXCEPT ![p] = "increment"]
    /\ ntCalls' = ntCalls + 1
    /\ UNCHANGED <<now, nonceData, isFirstFetch, lastRefetch, forceRefetchInterval,
                   refetchTimeout, ntCtx, ntCh, ntFetching, ntSel, lateFetches,
                   ntRet, issued, ntStats, ntOthers>>

\* IncrementAndGet: increment, or clear the first-fetch flag
IncStep(p) ==
    /\ ntPc[p] = "increment"
    /\ LET r == incrementAndGet(nonceData, isFirstFetch)
       IN  nonceData' = r.data /\ isFirstFetch' = r.first
    /\ ntPc' = [ntPc EXCEPT ![p] = "incReturn"]
    /\ UNCHANGED <<now, lastRefetch, forceRefetchInterval, refetchTimeout, mu,
                   ntCtx, ntCh, ntFetching, ntSel, lateFetches, ntRet, ntCalls,
                   issued, ntStats, ntOthers>>

\* IncrementAndGet: result := n.nonceData; unlock; return result
IncReturn(p) ==
    /\ ntPc[p] = "incReturn"
    /\ ntRet' = Returns("IncrementAndGet", p, nonceData, NoErr)
    /\ issued' = Append(issued, nonceData)
    /\ ntStats' = [ntStats EXCEPT !.incs = @ + 1]
    /\ mu' = NoOwner
    /\ ntPc' = [ntPc EXCEPT ![p] = "idle"]
    /\ UNCHANGED <<now, nonceData, isFirstFetch, lastRefetch, forceRefetchInterval,
                   refetchTimeout, ntCtx, ntCh, ntFetching, ntSel, lateFetches,
                   ntCalls, ntOthers>>

\* ForceRefetch: lock, the throttle check, and either the throttling error or
\* the start of refetchAndUpdateNonce (the scope, the channel, the goroutine)
ForceRefetch(p) ==
    /\ ntPc[p] = "idle"
    /\ ntCalls < MaxNtCalls
    /\ CanLock
    /\ ntCalls' = ntCalls + 1
    /\ IF mayRefetch(Since(lastRefetch), forceRefetchInterval)
       THEN /\ mu' = p
            /\ ntPc' = [ntPc EXCEPT ![p] = "select"]
            /\ ntCtx' = withTimeout(now, refetchTimeout)
            /\ ntCh' = <<>>
            /\ ntFetching' = TRUE
            /\ ntSel' = "none"
            /\ ntStats' = [ntStats EXCEPT !.fetchCalls = @ + 1]
            /\ UNCHANGED ntRet
       ELSE /\ ntRet' = Returns("ForceRefetch", p, ZeroNonce, ErrThrottled)
            /\ UNCHANGED <<mu, ntPc, ntCtx, ntCh, ntFetching, ntSel, ntStats>>
    /\ UNCHANGED <<now, nonceData, isFirstFetch, lastRefetch, forceRefetchInterval,
                   refetchTimeout, lateFetches, issued, ntOthers>>

\* the caller's scope is cancelled while its refetch is in progress (a scope
\* cancelled before the call is one cancelled before the select is entered)
CancelCtx ==
    /\ Refetching
    /\ ntCtx.err = "none"
    /\ ntCtx' = [ntCtx EXCEPT !.err = ErrCanceled, !.early = ntFetching]
    /\ ntSel' = wake("done")
    /\ UNCHANGED <<now, nonceData, isFirstFetch, lastRefetch, forceRefetchInterval,
                   refetchTimeout, mu, ntCh, ntFetching, lateFetches, ntPc, ntRet,
                   ntCalls, issued, ntStats, ntOthers>>

\* the fetch goroutine: fetchNonce returns and the result is sent on ch
FetchReturns ==
    /\ Refetching
    /\ ntFetching
    /\ \E r \in FetchResults : ntCh' = <<r>>
    /\ ntFetching' = FALSE
    /\ ntSel' = wake("ch")
    /\ UNCHANGED <<now, nonceData, isFirstFetch, lastRefetch, forceRefetchInterval,
                   refetchTimeout, mu, ntCtx, lateFetches, ntPc, ntRet, ntCalls,
                   issued, ntStats, ntOthers>>

\* refetchAndUpdateNonce reaches its select: a ready case is taken (any one
\* of them when both are ready), or the caller blocks
SelectEnter(p) ==
    /\ ntPc[p] = "select"
    /\ LET ready == selectReady(ntCtx, ntCh)
       IN  IF ready = {} THEN ntSel' = "none" ELSE ntSel' \in ready
    /\ ntPc' = [ntPc EXCEPT ![p] = "blocked"]
    /\ UNCHANGED <<now, nonceData, isFirstFetch, lastRefetch, forceRefetchInterval,
                   refetchTimeout, mu, ntCtx, ntCh, ntFetching, lateFetches, ntRet,
                   ntCalls, issued, ntStats, ntOthers>>

\* a refetch that takes a failed fetch's record for a result
refetchResult_ignoresError(res) == [nonce |-> res.nonce, err |-> NoErr]

\* refetchAndUpdateNonce, lines 137-144: what the channel case makes of the
\* fetch's result
refetchResult(res) ==
    IF res.err # NoErr THEN [nonce |-> ZeroNonce, err |-> res.err]
    ELSE [nonce |-> res.nonce, err |-> NoErr]

\* a refetch that stamps lastRefetch however it ends
lastRefetchAfter_always(old, err, t) == t

\* refetchAndUpdateNonce, lines 135-142: lastRefetch is written on the
\* successful path only
lastRefetchAfter(old, err, t) == IF err = NoErr THEN t ELSE old

\* refetchAndUpdateNonce: the body of the case taken, unlock, return
SelectCase(p) ==
    /\ ntPc[p] = "blocked"
    /\ ntSel # "none"
    /\ IF ntSel = "done"
       THEN /\ ntRet' = Returns("ForceRefetch", p, ZeroNonce, ntCtx.err)
            /\ lateFetches' = IF ntFetching THEN lateFetches + 1 ELSE lateFetches
            /\ lastRefetch' = lastRefetchAfter(lastRefetch, ntCtx.err, now)
            /\ UNCHANGED <<nonceData, issued, ntStats>>
       ELSE LET res == refetchResult(ntCh[1])
            IN  IF res.err # NoErr
                THEN /\ ntRet' = Returns("ForceRefetch", p, res.nonce, res.err)
                     /\ lastRefetch' = lastRefetchAfter(lastRefetch, res.err, now)
                     /\ UNCHANGED <<nonceData, issued, ntStats, lateFetches>>
                ELSE /\ nonceData' = res.nonce
                     /\ lastRefetch' = lastRefetchAfter(lastRefetch, res.err, now)
                     /\ ntRet' = Returns("ForceRefetch", p, res.nonce, NoErr)
                     /\ issued' = <<>>
                     /\ ntStats' = [ntStats EXCEPT !.refetches = @ + 1,
                                                   !.incsAtRefetch = ntStats.incs,
                                                   !.fetched = res.nonce]
                     /\ UNCHANGED lateFetches
    /\ mu' = NoOwner
    /\ ntPc' = [ntPc EXCEPT ![p] = "idle"]
    /\ ntCtx' = NoCtx
    /\ ntCh' = <<>>
    /\ ntFetching' = FALSE
    /\ ntSel' = "none"
    /\ UNCHANGED <<now, isFirstFetch, forceRefetchInterval, refetchTimeout, ntCalls,
                   ntOthers>>

\* a fetch goroutine whose refetch has already returned: fetchNonce returns
\* and the result is sent on a channel nobody reads
LateFetchReturns ==
    /\ lateFetches > 0
    /\ \E r \in FetchResults : lateFetches' = lateFetches - 1
    /\ UNCHANGED <<now, nonceData, isFirstFetch, lastRefetch, forceRefetchInterval,
                   refetchTimeout, mu, ntCtx, ntCh, ntFetching, ntSel, ntPc, ntRet,
                   ntCalls, issued, ntStats, ntOthers>>

\* time passes; the scope of a refetch in progress expires at its deadline
TickNT ==
    /\ Tick
    /\ IF Refetching /\ ntCtx.err = "none" /\ now' >= ntCtx.deadline
       THEN /\ ntCtx' = [ntCtx EXCEPT !.err = ErrDeadline, !.early = ntFetching]
            /\ ntSel' = wake("done")
       ELSE UNCHANGED <<ntCtx, ntSel>>
    /\ UNCHANGED <<nonceData, isFirstFetch, lastRefetch, forceRefetchInterval,
                   refetchTimeout, mu, ntCh, ntFetching, lateFetches, ntPc, ntRet,
                   ntCalls, issued, ntStats, ntOthers>>

\* a setter that adds the number it is given to the stored one
forceUpdateNonce_adds(data, n) == [data EXCEPT !.Nonce = @ + n]

\* ForceUpdateNonce: the record after the call
forceUpdateNonce(data, n) == [data EXCEPT !.Nonce = n]

\* ForceUpdateNonce(n): lock, set the stored sequence number, unlock
ForceUpdateNonce(p) ==
    /\ ntPc[p] = "idle"
    /\ ntCalls < MaxNtCalls
    /\ CanLock
    /\ ntCalls' = ntCalls + 1
    /\ \E n \in UpdateNonces :
           /\ nonceData' = forceUpdateNonce(nonceData, n)
           /\ ntStats' = [ntStats EXCEPT !.updated = n]
    /\ ntRet' = Returns("ForceUpdateNonce", p, ZeroNonce, NoErr)
    /\ issued' = <<>>
    /\ UNCHANGED <<now, isFirstFetch, lastRefetch, forceRefetchInterval,
                   refetchTimeout, mu, ntCtx, ntCh, ntFetching, ntSel, lateFetches,
                   ntPc, ntOthers>>

\* GetCurrentNonce: lock, read the stored record, unlock, return it
GetCurrentNonce(p) ==
    /\ ntPc[p] = "idle"
    /\ ntCalls < MaxNtCalls
    /\ CanLock
    /\ ntCalls' = ntCalls + 1
    /\ ntRet' = Returns("GetCurrentNonce", p, nonceData, NoErr)
    /\ UNCHANGED <<now, nonceData, isFirstFetch, lastRefetch, forceRefetchInterval,
                   refetchTimeout, mu, ntCtx, ntCh, ntFetching, ntSel, lateFetches,
                   ntPc, issued, ntStats, ntOthers>>

NextNT ==
    \/ \E p \in Procs : IncLock(p)
    \/ \E p \in Procs : IncStep(p)
    \/ \E p \in Procs : IncReturn(p)
    \/ \E p \in Procs : ForceRefetch(p)
    \/ \E p \in Procs : SelectEnter(p)
    \/ \E p \in Procs : SelectCase(p)
    \/ CancelCtx
    \/ FetchReturns
    \/ LateFetchReturns
    \/ TickNT

(***************************************************************************)
(* Asynchronous request processor                                          *)
(***************************************************************************)
\* NoRetryConfig: the nil *retry.RetryConfig
NoRetryConfig ==
    [nil |-> TRUE, MaxDuration |-> 0, InitialInterval |-> 0, MaxInterval |-> 0,
     IntervalIncrement |-> 0]

\* the retry configurations a processor is built with
RetryConfigs ==
    {NoRetryConfig,
     [nil |-> FALSE, MaxDuration |-> 2, InitialInterval |-> 1, MaxInterval |-> 2,
      IntervalIncrement |-> 1],
     [nil |-> FALSE, MaxDuration |-> 1, InitialInterval |-> 0, MaxInterval |-> 0,
      IntervalIncrement |-> 0]}

\* the buffer sizes a processor is built with; 0 makes both channels unbuffered
BufferSizes == {0, 1, 2}

\* what Process returns
ProcessOutcomes == {NoErr, "e1"}

NoRetry == [timer |-> 0, after |-> 0, interval |-> 0, attempts |-> 0, last |-> NoErr]

\* "operation timed out after ...: %w" wrapping err
TimedOut(err) == "operation timed out: " \o err

\* NewAsyncRequstProcessor
InitAP ==
    /\ requestChan = <<>>
    /\ responseChan = <<>>
    /\ bufferSize \in BufferSizes
    /\ retryConfig \in RetryConfigs
    /\ responseClosed = FALSE
    /\ ctxDone = FALSE
    /\ wg = 0
    /\ wkPc = "none"
    /\ wkMode = "loop"
    /\ wkReq = 0
    /\ wkErr = NoErr
    /\ wkRetry = NoRetry
    /\ inFlight = 0
    /\ stopPc = "idle"
    /\ submitted = [n |-> 0, ok |-> FALSE, late |-> FALSE]
    /\ accepted = <<>>
    /\ attempts = <<>>
    /\ sent = <<>>
    /\ dropped = <<>>
    /\ closeSeen = FALSE

\* submitReady with the send ready also when the buffer is full
submitReady_noBound(done, len, cap) ==
    (IF done THEN {"done"} ELSE {}) \cup (IF len <= cap THEN {"send"} ELSE {})

\* Submit, lines 106-114: the cases of the select that are ready because of
\* w.ctx and of the room in requestChan's buffer (default runs when none is)
submitReady(done, len, cap) ==
    (IF done THEN {"done"} ELSE {}) \cup (IF len < cap THEN {"send"} ELSE {})

\* the worker may be parked in the outer select of processLoop with its receive
\* from requestChan waiting: a send on the unbuffered channel then succeeds by
\* handing the request to it
receiverWaits == bufferSize = 0 /\ wkPc = "loop" /\ ~ctxDone

\* a receive that takes the request sent last
dequeue_newest(ch) == [req |-> ch[Len(ch)], rest |-> SubSeq(ch, 1, Len(ch) - 1)]

\* req := <-w.requestChan: a channel's buffer is first in, first out
dequeue(ch) == [req |-> Head(ch), rest |-> Tail(ch)]

\* processLoop, lines 127-141: the ready cases of the outer select
loopReady(done, len) ==
    (IF done THEN {"done"} ELSE {}) \cup (IF len > 0 THEN {"recv"} ELSE {})

\* a select without the case of the overall timer
backoffReady_noTimer(done, t, r) ==
    (IF done THEN {"done"} ELSE {}) \cup (IF t >= r.after THEN {"after"} ELSE {})

\* RetryWithBackoff, lines 38-48: the ready cases of its select
backoffReady(done, t, r) ==
    (IF done THEN {"done"} ELSE {})
        \cup (IF t >= r.timer THEN {"timer"} ELSE {})
        \cup (IF t >= r.after THEN {"after"} ELSE {})

\* a select that may give the response up at any time
sendReady_givesUp(done, len, cap) ==
    (IF len < cap \/ cap = 0 THEN {"send"} ELSE {}) \cup {"done"}

\* processRequest, lines 166-175: the ready cases of its select; on the
\* unbuffered responseChan the send is ready when a consumer is receiving,
\* which it may be at any time
sendReady(done, len, cap) ==
    (IF len < cap \/ cap = 0 THEN {"send"} ELSE {}) \cup (IF done THEN {"done"} ELSE {})

\* min(interval+cfg.IntervalIncrement, cfg.MaxInterval)
\* the interval growing without the cap
nextInterval_uncapped(interval, cfg) == interval + cfg.IntervalIncrement

\* line 46: interval = min(interval+cfg.IntervalIncrement, cfg.MaxInterval)
nextInterval(interval, cfg) ==
    IF interval + cfg.IntervalIncrement < cfg.MaxInterval
    THEN interval + cfg.IntervalIncrement
    ELSE cfg.MaxInterval

apOthers == <<cbVars, ntVars, rtVars>>

\* Start
Start ==
    /\ wkPc = "none"
    /\ stopPc = "idle"
    /\ wg' = wg + 1
    /\ wkPc' = "loop"
    /\ UNCHANGED <<now, requestChan, responseChan, retryConfig, bufferSize,
                   responseClosed, ctxDone, wkMode, wkReq, wkErr, wkRetry, stopPc,
                   submitted, accepted, attempts, sent, dropped,
                   inFlight, closeSeen, apOthers>>

\* Submit of the request with the next ID
Submit ==
    /\ submitted.n < MaxSubmits
    /\ LET id == submitted.n + 1
           ready == submitReady(ctxDone, Len(requestChan), bufferSize)
       IN  \/ /\ "send" \in ready
              /\ requestChan' = Append(requestChan, id)
              /\ accepted' = Append(accepted, id)
              /\ submitted' = [n |-> id, ok |-> TRUE, late |-> submitted.late \/ ctxDone]
              /\ UNCHANGED <<wkPc, wkMode, wkReq>>
           \/ /\ receiverWaits
              /\ wkReq' = id
              /\ wkMode' = "loop"
              /\ wkPc' = "call"
              /\ accepted' = Append(accepted, id)
              /\ submitted' = [n |-> id, ok |-> TRUE, late |-> submitted.late \/ ctxDone]
              /\ UNCHANGED requestChan
           \/ /\ "done" \in ready \/ ready = {}
              /\ submitted' = [n |-> id, ok |-> FALSE, late |-> submitted.late]
              /\ UNCHANGED <<requestChan, accepted, wkPc, wkMode, wkReq>>
    /\ UNCHANGED <<now, responseChan, retryConfig, bufferSize, responseClosed,
                   ctxDone, wg, wkErr, wkRetry, stopPc, attempts, sent, dropped,
                   inFlight, closeSeen, apOthers>>

\* processLoop: the outer select
WorkerSelect ==
    /\ wkPc = "loop"
    /\ LET ready == loopReady(ctxDone, Len(requestChan))
       IN  \/ /\ "done" \in ready
              /\ wkPc' = "drain"
              /\ UNCHANGED <<requestChan, wkReq, wkMode>>
           \/ /\ "recv" \in ready
              /\ wkReq' = dequeue(requestChan).req
              /\ requestChan' = dequeue(requestChan).rest
              /\ wkMode' = "loop"
              /\ wkPc' = "call"
    /\ UNCHANGED <<now, responseChan, retryConfig, bufferSize, responseClosed,
                   ctxDone, wg, wkErr, wkRetry, stopPc, submitted, accepted,
                   attempts, sent, dropped, inFlight, closeSeen, apOthers>>

\* processLoop: the inner select after w.ctx is done
WorkerDrain ==
    /\ wkPc = "drain"
    /\ IF Len(requestChan) > 0
       THEN /\ wkReq' = dequeue(requestChan).req
            /\ requestChan' = dequeue(requestChan).rest
            /\ wkMode' = "drain"
            /\ wkPc' = "call"
            /\ UNCHANGED wg
       ELSE /\ wkPc' = "exited"
            /\ wg' = wg - 1
            /\ UNCHANGED <<requestChan, wkReq, wkMode>>
    /\ UNCHANGED <<now, responseChan, retryConfig, bufferSize, responseClosed,
                   ctxDone, wkErr, wkRetry, stopPc, submitted, accepted, attempts,
                   sent, dropped, inFlight, closeSeen, apOthers>>

\* processRequest: without a retry config w.process is called, which reads
\* w.retryConfig.MaxDuration of the nil config: the goroutine panics, its
\* deferred w.wg.Done() runs, and the unrecovered panic ends the program at
\* some moment after that; with a config, RetryWithBackoff starts its timer
ProcessRequest ==
    /\ wkPc = "call"
    /\ IF retryConfig.nil
       THEN /\ wkPc' = "panicked"
            /\ wg' = wg - 1
            /\ UNCHANGED wkRetry
       ELSE /\ wkPc' = "attempt"
            /\ wkRetry' = [timer |-> now + retryConfig.MaxDuration, after |-> 0,
                           interval |-> retryConfig.InitialInterval, attempts |-> 0,
                           last |-> NoErr]
            /\ UNCHANGED wg
    /\ UNCHANGED <<now, requestChan, responseChan, retryConfig, bufferSize,
                   responseClosed, ctxDone, wkMode, wkReq, wkErr, stopPc,
                   submitted, accepted, attempts, sent, dropped,
                   inFlight, closeSeen, apOthers>>

\* a worker that calls Process without waiting for the call to return
AttemptCall_overlapping ==
    /\ wkPc = "attempt"
    /\ wkPc' = "attempt"
    /\ wkRetry' = [wkRetry EXCEPT !.attempts = @ + 1]
    /\ wkRetry.attempts < MaxAttempts
    /\ attempts' = Append(attempts, [id |-> wkReq, cancelled |-> ctxDone])
    /\ inFlight' = inFlight + 1
    /\ UNCHANGED <<now, requestChan, responseChan, retryConfig, bufferSize,
                   responseClosed, ctxDone, wg, wkMode, wkReq, wkErr, stopPc,
                   submitted, accepted, sent, dropped, closeSeen,
                   apOthers>>

\* RetryWithBackoff: operation(ctx), that is w.process(req), calls Process
AttemptCall ==
    /\ wkPc = "attempt"
    /\ wkPc' = "processing"
    /\ wkRetry' = [wkRetry EXCEPT !.attempts = @ + 1]
    /\ attempts' = Append(attempts, [id |-> wkReq, cancelled |-> ctxDone])
    /\ inFlight' = inFlight + 1
    /\ UNCHANGED <<now, requestChan, responseChan, retryConfig, bufferSize,
                   responseClosed, ctxDone, wg, wkMode, wkReq, wkErr, stopPc,
                   submitted, accepted, sent, dropped, closeSeen,
                   apOthers>>

\* Process returns: nil ends RetryWithBackoff, an error leads to its select
ProcessReturns ==
    /\ wkPc = "processing"
    /\ inFlight' = inFlight - 1
    /\ \E e \in ProcessOutcomes :
        /\ wkErr' = e
        /\ IF e = NoErr
           THEN wkPc' = "send" /\ wkRetry' = [wkRetry EXCEPT !.last = e]
           ELSE /\ wkPc' = "backoff"
                /\ wkRetry' = [wkRetry EXCEPT !.after = now + wkRetry.interval,
                                               !.last = e]
    /\ UNCHANGED <<now, requestChan, responseChan, retryConfig, bufferSize,
                   responseClosed, ctxDone, wg, wkMode, wkReq, stopPc, submitted,
                   accepted, attempts, sent, dropped, closeSeen,
                   apOthers>>

\* RetryWithBackoff: the select after a failed attempt
BackoffSelect ==
    /\ wkPc = "backoff"
    /\ LET ready == backoffReady(ctxDone, now, wkRetry)
       IN  \/ /\ "done" \in ready
              /\ wkErr' = ErrCanceled
              /\ wkPc' = "send"
              /\ UNCHANGED wkRetry
           \/ /\ "timer" \in ready
              /\ wkErr' = TimedOut(wkErr)
              /\ wkPc' = "send"
              /\ UNCHANGED wkRetry
           \/ /\ "after" \in ready
              /\ wkRetry.attempts < MaxAttempts
              /\ wkRetry' = [wkRetry EXCEPT !.interval = nextInterval(@, retryConfig)]
              /\ wkPc' = "attempt"
              /\ UNCHANGED wkErr
    /\ UNCHANGED <<now, requestChan, responseChan, retryConfig, bufferSize,
                   responseClosed, ctxDone, wg, wkMode, wkReq, stopPc, submitted,
                   accepted, attempts, sent, dropped, inFlight, closeSeen, apOthers>>

\* processRequest: the select that sends the response or gives it up
SendResponse ==
    /\ wkPc = "send"
    /\ LET ready == sendReady(ctxDone, Len(responseChan), bufferSize)
           resp == [RequestID |-> wkReq, Error |-> wkErr]
       IN  \/ /\ "send" \in ready
              /\ responseChan' = IF bufferSize = 0 THEN responseChan
                                 ELSE Append(responseChan, resp)
              /\ sent' = Append(sent, wkReq)
              /\ UNCHANGED dropped
           \/ /\ "done" \in ready
              /\ dropped' = Append(dropped, wkReq)
              /\ UNCHANGED <<responseChan, sent>>
    /\ wkPc' = wkMode
    /\ wkReq' = 0
    /\ wkErr' = NoErr
    /\ wkRetry' = NoRetry
    /\ UNCHANGED <<now, requestChan, retryConfig, bufferSize, responseClosed,
                   ctxDone, wg, wkMode, stopPc, submitted, accepted, attempts,
                   inFlight, closeSeen, apOthers>>

\* a consumer receives from Responses()
Consume ==
    /\ Len(responseChan) > 0
    /\ responseChan' = Tail(responseChan)
    /\ UNCHANGED <<now, requestChan, retryConfig, bufferSize, responseClosed,
                   ctxDone, wg, wkPc, wkMode, wkReq, wkErr, wkRetry, stopPc,
                   submitted, accepted, attempts, sent, dropped,
                   inFlight, closeSeen, apOthers>>

\* a consumer's receive from Responses() on the closed and empty channel
\* returns at once with ok = false (a range over it ends)
ObserveClose ==
    /\ responseClosed
    /\ responseChan = <<>>
    /\ ~closeSeen
    /\ closeSeen' = TRUE
    /\ UNCHANGED <<now, requestChan, responseChan, retryConfig, bufferSize,
                   responseClosed, ctxDone, wg, wkPc, wkMode, wkReq, wkErr, wkRetry,
                   stopPc, submitted, accepted, attempts, sent, dropped, inFlight,
                   apOthers>>

\* Stop: w.cancel()
StopCancel ==
    /\ stopPc = "idle"
    /\ ctxDone' = TRUE
    /\ stopPc' = "waiting"
    /\ UNCHANGED <<now, requestChan, responseChan, retryConfig, bufferSize,
                   responseClosed, wg, wkPc, wkMode, wkReq, wkErr, wkRetry,
                   submitted, accepted, attempts, sent, dropped,
                   inFlight, closeSeen, apOthers>>

\* a Stop that closes responseChan without w.wg.Wait()
StopClose_noWait ==
    /\ stopPc = "waiting"
    /\ responseClosed' = TRUE
    /\ stopPc' = "returned"
    /\ UNCHANGED <<now, requestChan, responseChan, retryConfig, bufferSize, ctxDone,
                   wg, wkPc, wkMode, wkReq, wkErr, wkRetry, submitted, accepted,
                   attempts, sent, dropped, inFlight, closeSeen, apOthers>>

\* Stop: w.wg.Wait() returns, close(w.responseChan)
StopClose ==
    /\ stopPc = "waiting"
    /\ wg = 0
    /\ responseClosed' = TRUE
    /\ stopPc' = "returned"
    /\ UNCHANGED <<now, requestChan, responseChan, retryConfig, bufferSize, ctxDone,
                   wg, wkPc, wkMode, wkReq, wkErr, wkRetry, submitted, accepted,
                   attempts, sent, dropped, inFlight, closeSeen, apOthers>>

\* time passes; nothing reads the clock but ProcessRequest, which is reached in
\* no time, and a RetryWithBackoff whose operation has been called, and that
\* only until its timers have fired
TickAP ==
    /\ wkPc \in {"processing", "backoff"}
    /\ now < wkRetry.timer \/ (wkPc = "backoff" /\ now < wkRetry.after)
    /\ Tick
    /\ UNCHANGED <<cbVars, ntVars, apVars, rtVars>>

NextAP ==
    \/ Start
    \/ Submit
    \/ WorkerSelect
    \/ WorkerDrain
    \/ ProcessRequest
    \/ AttemptCall
    \/ ProcessReturns
    \/ BackoffSelect
    \/ SendResponse
    \/ Consume
    \/ ObserveClose
    \/ StopCancel
    \/ StopClose
    \/ TickAP

(***************************************************************************)
(* Specifications: one component runs, the others rest                     *)
(***************************************************************************)
(* Retry with backoff                                                      *)
(***************************************************************************)
\* the characters error texts and patterns are written with
Chars == {"a", "A", "b", "B"}

\* the texts of at most n characters
RECURSIVE TextsUpTo(_)
TextsUpTo(n) ==
    IF n = 0 THEN {<<>>}
    ELSE LET shorter == TextsUpTo(n - 1)
         IN  shorter \cup {Append(t, c) : t \in shorter, c \in Chars}

\* errors: the nil error, errors.New(text), and an error wrapping another
NilError == [nil |-> TRUE, text |-> <<>>, wraps |-> FALSE]
NewError(text) == [nil |-> FALSE, text |-> text, wraps |-> FALSE]

\* what the operation may return
OperationResults ==
    {NilError} \cup {NewError(t) : t \in TextsUpTo(MaxTextLen) \ {<<>>}}

\* the pattern lists RetryWithBackoff is called with: none, one pattern
\* (the empty one included), or two patterns of one character
PatternLists ==
    {<<>>} \cup {<<t>> : t \in TextsUpTo(MaxTextLen)}
           \cup {<<t, u>> : t, u \in TextsUpTo(1) \ {<<>>}}

\* ctx.Err() of a cancelled scope
CanceledError == NewError(<<"c">>)

\* a timeout error that says nothing of the operation's error
TimedOutError_bare(err) == [nil |-> FALSE, text |-> <<"t", ":">>, wraps |-> FALSE]

\* fmt.Errorf("operation timed out after %v: %w", cfg.MaxDuration, err)
TimedOutError(err) ==
    [nil |-> FALSE, text |-> <<"t", ":">> \o err.text, wraps |-> TRUE]

\* unicode.ToLower on one character
Lower(c) ==
    CASE c = "A" -> "a"
      [] c = "B" -> "b"
      [] OTHER -> c

\* strings.ToLower
ToLower(s) == [i \in 1..Len(s) |-> Lower(s[i])]

\* strings.Contains
Contains(s, substr) ==
    \E i \in 1..(Len(s) - Len(substr) + 1) : SubSeq(s, i, i + Len(substr) - 1) = substr

\* an isNonRetriable that compares the texts as they are
isNonRetriable_caseSensitive(err, nonRetriablePatterns) ==
    IF err.nil \/ Len(nonRetriablePatterns) = 0 THEN FALSE
    ELSE \E k \in 1..Len(nonRetriablePatterns) :
             Contains(err.text, nonRetriablePatterns[k])

\* isNonRetriable
isNonRetriable(err, nonRetriablePatterns) ==
    IF err.nil \/ Len(nonRetriablePatterns) = 0 THEN FALSE
    ELSE LET errStr == ToLower(err.text)
         IN  \E k \in 1..Len(nonRetriablePatterns) :
                 Contains(errStr, ToLower(nonRetriablePatterns[k]))

\* a loop that goes on after an attempt has succeeded
afterOperation_keepsTrying(err, nonRetriablePatterns) ==
    IF ~err.nil /\ isNonRetriable(err, nonRetriablePatterns) THEN "return err"
    ELSE "select"

\* RetryWithBackoff, lines 32-50: where the loop goes once operation(ctx)
\* has returned err
afterOperation(err, nonRetriablePatterns) ==
    IF ~err.nil
    THEN IF isNonRetriable(err, nonRetriablePatterns) THEN "return err" ELSE "select"
    ELSE "return nil"

\* the configurations RetryWithBackoff is called with: an interval that grows
\* to its cap, a zero interval, an interval as long as MaxDuration, and a cap
\* below the initial interval
RtConfigs ==
    (RetryConfigs \ {NoRetryConfig}) \cup
    {[nil |-> FALSE, MaxDuration |-> 1, InitialInterval |-> 1, MaxInterval |-> 1,
      IntervalIncrement |-> 0],
     [nil |-> FALSE, MaxDuration |-> 2, InitialInterval |-> 2, MaxInterval |-> 1,
      IntervalIncrement |-> 1]}

\* RetryWithBackoff, lines 26-29: the call has created its timer and set
\* interval; the operation has not been called yet
InitRT ==
    /\ rtArgs \in [cfg : RtConfigs, patterns : PatternLists]
    /\ rtCtxDone = FALSE
    /\ rtLocal = [pc |-> "loop", interval |-> rtArgs.cfg.InitialInterval,
             timer |-> StartTime + rtArgs.cfg.MaxDuration, after |-> 0,
             err |-> NilError]
    /\ rtRet = NilError
    /\ rtLog = [calls |-> 0, oks |-> 0, firstA |-> FALSE]

rtOthers == <<cbVars, ntVars, apVars>>

\* line 32: operation(ctx) is called
RtOperation ==
    /\ rtLocal.pc = "loop"
    /\ rtLog.calls < MaxOperationCalls
    /\ rtLocal' = [rtLocal EXCEPT !.pc = "operation"]
    /\ rtLog' = [rtLog EXCEPT !.calls = @ + 1]
    /\ UNCHANGED <<now, rtArgs, rtCtxDone, rtRet, rtOthers>>

\* lines 32-37 and 50: operation(ctx) returns err; nil and a non-retriable
\* error end the call, any other error leads to the select
RtOperationReturns ==
    /\ rtLocal.pc = "operation"
    /\ \E err \in OperationResults :
        LET to == afterOperation(err, rtArgs.patterns)
        IN  /\ rtLog' = [rtLog EXCEPT
                            !.oks = IF err.nil THEN @ + 1 ELSE @,
                            !.firstA = IF rtLog.calls = 1 THEN err = NewError(<<"a">>)
                                       ELSE @]
            /\ CASE to = "return nil" ->
                        /\ rtLocal' = [rtLocal EXCEPT !.pc = "returned", !.err = err]
                        /\ rtRet' = NilError
                 [] to = "return err" ->
                        /\ rtLocal' = [rtLocal EXCEPT !.pc = "returned", !.err = err]
                        /\ rtRet' = err
                 [] OTHER ->
                        /\ rtLocal' = [rtLocal EXCEPT !.pc = "select", !.err = err,
                                            !.after = now + rtLocal.interval]
                        /\ UNCHANGED rtRet
    /\ UNCHANGED <<now, rtArgs, rtCtxDone, rtOthers>>

\* lines 38-48: the select after a failed attempt
RtSelect ==
    /\ rtLocal.pc = "select"
    /\ LET ready == backoffReady(rtCtxDone, now, rtLocal)
       IN  \/ /\ "done" \in ready
              /\ rtRet' = CanceledError
              /\ rtLocal' = [rtLocal EXCEPT !.pc = "returned"]
           \/ /\ "timer" \in ready
              /\ rtRet' = TimedOutError(rtLocal.err)
              /\ rtLocal' = [rtLocal EXCEPT !.pc = "returned"]
           \/ /\ "after" \in ready
              /\ rtLocal' = [rtLocal EXCEPT !.interval = nextInterval(@, rtArgs.cfg),
                                            !.pc = "loop", !.err = NilError]
              /\ UNCHANGED rtRet
    /\ UNCHANGED <<now, rtArgs, rtCtxDone, rtLog, rtOthers>>

\* the caller's scope is cancelled while the call is running
RtCancel ==
    /\ rtLocal.pc # "returned"
    /\ ~rtCtxDone
    /\ rtCtxDone' = TRUE
    /\ UNCHANGED <<now, rtArgs, rtLocal, rtRet, rtLog, rtOthers>>

\* time passes while the operation runs or the select waits, until the
\* timers have fired
TickRT ==
    /\ rtLocal.pc \in {"operation", "select"}
    /\ now < rtLocal.timer \/ (rtLocal.pc = "select" /\ now < rtLocal.after)
    /\ Tick
    /\ UNCHANGED <<rtVars, rtOthers>>

NextRT ==
    \/ RtOperation
    \/ RtOperationReturns
    \/ RtSelect
    \/ RtCancel
    \/ TickRT

\* time passes only while the select waits with no case ready: the operation
\* takes no time and the goroutine runs as soon as it can
TickRTWaiting ==
    /\ rtLocal.pc = "select"
    /\ backoffReady(rtCtxDone, now, rtLocal) = {}
    /\ Tick
    /\ UNCHANGED <<rtVars, rtOthers>>

\* a call whose scope is never cancelled and whose operation takes no time
NextRTQuick ==
    \/ RtOperation
    \/ RtOperationReturns
    \/ RtSelect
    \/ TickRTWaiting

(***************************************************************************)
\* a breaker built with the first options and never called
RestCB ==
    /\ failureThreshold = DefaultFailureThreshold
    /\ resetTimeout = DefaultResetTimeout
    /\ InitCB

\* a tracker built with the first durations and never called
RestNT ==
    /\ forceRefetchInterval = 1
    /\ refetchTimeout = 1
    /\ InitNT

TickCB == Tick /\ UNCHANGED <<cbVars, ntVars, apVars, rtVars>>

NextCB ==
    \/ \E p \in Procs : AllowRequest(p)
    \/ \E p \in Procs : ToHalfOpen(p)
    \/ \E p \in Procs : Operation(p)
    \/ \E p \in Procs : HandleResult(p)
    \/ TickCB

\* a processor built with the first sizes and never started
RestAP ==
    /\ bufferSize = 1
    /\ retryConfig = NoRetryConfig
    /\ InitAP

\* a call of RetryWithBackoff with the first arguments, never started
RestRT ==
    /\ rtArgs = [cfg |-> [nil |-> FALSE, MaxDuration |-> 1, InitialInterval |-> 0,
                          MaxInterval |-> 0, IntervalIncrement |-> 0],
                 patterns |-> <<>>]
    /\ InitRT

CBInit == now = StartTime /\ InitCB /\ RestNT /\ RestAP /\ RestRT

SpecCB == CBInit /\ [][NextCB]_vars

NTInit == now = StartTime /\ InitNT /\ RestCB /\ RestAP /\ RestRT

SpecNT == NTInit /\ [][NextNT]_vars

\* the tracker with callers that also use the direct setter and getter, and
\* that do not cancel the scope of a refetch
NextNU ==
    \/ \E p \in Procs : IncLock(p)
    \/ \E p \in Procs : IncStep(p)
    \/ \E p \in Procs : IncReturn(p)
    \/ \E p \in Procs : ForceRefetch(p)
    \/ \E p \in Procs : SelectEnter(p)
    \/ \E p \in Procs : SelectCase(p)
    \/ FetchReturns
    \/ LateFetchReturns
    \/ TickNT
    \/ \E p \in Procs : ForceUpdateNonce(p)
    \/ \E p \in Procs : GetCurrentNonce(p)

\* (the durations play no part in them: the tracker is built with the first)
NUInit == now = StartTime /\ RestNT /\ RestCB /\ RestAP /\ RestRT

SpecNU == NUInit /\ [][NextNU]_vars

APInit == now = StartTime /\ InitAP /\ RestCB /\ RestNT /\ RestRT

SpecAP == APInit /\ [][NextAP]_vars

RTInit == now = StartTime /\ InitRT /\ RestCB /\ RestNT /\ RestAP

SpecRT == RTInit /\ [][NextRT]_vars

\* the goroutine is scheduled, the operation returns, and the clock advances
FairRT ==
    /\ WF_vars(RtOperation)
    /\ WF_vars(RtOperationReturns)
    /\ WF_vars(RtSelect)
    /\ WF_vars(TickRTWaiting)

SpecRTQuick == RTInit /\ [][NextRTQuick]_vars /\ FairRT

\* the worker goroutine and the goroutine in Stop are scheduled whenever they
\* can take a step, and every call of Process returns; nothing is scheduled
\* for certain once a panic is ending the program
FairAP ==
    /\ WF_vars(WorkerSelect)
    /\ WF_vars(WorkerDrain)
    /\ WF_vars(ProcessRequest)
    /\ WF_vars(AttemptCall)
    /\ WF_vars(ProcessReturns)
    /\ WF_vars(BackoffSelect)
    /\ WF_vars(SendResponse)
    /\ WF_vars(StopClose /\ wkPc # "panicked")

SpecAPLive == APInit /\ [][NextAP]_vars /\ FairAP

(***************************************************************************)
(* Circuit breaker: properties                                             *)
(***************************************************************************)
\* no Execute call is in progress
CBQuiescent == \A p \in Procs : cbPc[p] = "idle"

\* an Execute call starts in this step (allowRequest runs)
Begins == cbCalls' = cbCalls + 1

\* the call that starts in this step is rejected: it returns the rejection
\* error at once and no caller is admitted
Rejected ==
    /\ cbPc' = cbPc
    /\ cbReturns' = [cbReturns EXCEPT !.rejected = @ + 1]
    /\ \E p \in Procs : /\ cbPc[p] = "idle"
                        /\ cbRet'[p] = ErrCircuitOpen
                        /\ cbInvoked'[p] = FALSE
                        /\ \A q \in Procs \ {p} :
                              cbRet'[q] = cbRet[q] /\ cbInvoked'[q] = cbInvoked[q]

\* caller p records a success / a failure in this step
RecordsSuccess(p) == cbPc[p] = "handleResult" /\ cbPc'[p] = "idle" /\ cbErr[p] = NoErr
RecordsFailure(p) == cbPc[p] = "handleResult" /\ cbPc'[p] = "idle" /\ cbErr[p] # NoErr

\* the calls returned so far are n failures and nothing else
OnlyFailures(n) ==
    cbReturns.ok = 0 /\ cbReturns.rejected = 0 /\ cbReturns.failed = n

C1_BelowThreshold ==
    \A n \in 0..MaxCalls :
        OnlyFailures(n) /\ n < failureThreshold =>
            currentState = StateClosed /\ stateChanges.n = 0

C1_AtThreshold ==
    OnlyFailures(failureThreshold) /\ CBQuiescent =>
        /\ currentState = StateOpen
        /\ stateChanges = [n |-> 1, last |-> <<StateClosed, StateOpen>>]

C1_NextRejected ==
    /\ OnlyFailures(failureThreshold) /\ CBQuiescent
    /\ Since(lastFailureTime) <= resetTimeout
    /\ Begins
    => Rejected

\* C1: from a fresh (Closed, counter 0) breaker with threshold T, fewer than
\* T failed Execute calls and no other leave it Closed with no transition;
\* exactly T of them leave it Open after exactly one transition, Closed->Open;
\* and an Execute begun then, the reset timeout not yet exceeded, is rejected
\* without invoking its operation.
C1_FailureThreshold ==
    /\ [](C1_BelowThreshold /\ C1_AtThreshold)
    /\ [][C1_NextRejected]_vars

\* threshold 2: two failures, then a rejected third call
C1_Witness ==
    /\ failureThreshold = 2
    /\ cbReturns = [ok |-> 0, failed |-> 2, rejected |-> 1, run |-> 2]
    /\ currentState = StateOpen
    /\ \A p \in Procs : ~cbInvoked[p] => cbRet[p] = ErrCircuitOpen

\* the fields of the breaker and what the callbacks saw
cbFields == <<currentState, failureCount, successCount, lastFailureTime,
              stateChanges, errorsSeen>>

C2_Admission ==
    currentState = StateOpen /\ Begins =>
        IF Since(lastFailureTime) > resetTimeout
        THEN \E p \in Procs : cbPc[p] = "idle" /\ cbPc'[p] = "toHalfOpen"
                               /\ cbInvoked'[p] = FALSE
        ELSE Rejected /\ UNCHANGED cbFields

C2_HalfOpenFirst ==
    \A p \in Procs :
        cbPc[p] = "toHalfOpen" /\ cbPc'[p] # "toHalfOpen" =>
            /\ currentState' = StateHalfOpen
            /\ cbPc'[p] = "operation"
            /\ cbInvoked'[p] = FALSE

C2_RejectedNotInvoked ==
    \A p \in Procs :
        /\ cbPc[p] = "toHalfOpen" => ~cbInvoked[p]
        /\ cbPc[p] = "idle" /\ cbRet[p] = ErrCircuitOpen => ~cbInvoked[p]
        /\ cbPc[p] = "idle" /\ cbRet[p] \in Outcomes => cbInvoked[p]
        /\ cbPc[p] = "handleResult" => cbInvoked[p]

\* C2: an Execute that finds the breaker Open goes on to invoke its operation
\* exactly when the time since lastFailureTime exceeds resetTimeout; it then
\* puts the breaker in HalfOpen before the operation is invoked; otherwise it
\* returns "circuit breaker is open" with the operation not invoked, no
\* callback fired, and state, counters and lastFailureTime unchanged.
C2_OpenAdmission ==
    /\ []C2_RejectedNotInvoked
    /\ [][C2_Admission /\ C2_HalfOpenFirst]_vars

\* an admitted probe: HalfOpen, its operation about to be invoked, after a
\* rejected call
C2_Witness ==
    /\ currentState = StateHalfOpen
    /\ stateChanges.last = <<StateOpen, StateHalfOpen>>
    /\ cbReturns.rejected > 0
    /\ \E p \in Procs : cbPc[p] = "operation" /\ ~cbInvoked[p]

C3_FirstSuccess ==
    \A p \in Procs :
        currentState = StateHalfOpen /\ successCount = 0 /\ RecordsSuccess(p) =>
            currentState' = StateHalfOpen /\ successCount' = 1
                /\ stateChanges' = stateChanges

C3_SecondSuccess ==
    \A p \in Procs :
        currentState = StateHalfOpen /\ successCount = 1 /\ RecordsSuccess(p) =>
            currentState' = StateClosed /\ successCount' = 0 /\ failureCount' = 0

C3_Failure ==
    \A p \in Procs :
        currentState = StateHalfOpen /\ RecordsFailure(p) =>
            currentState' = StateOpen /\ successCount' = 0

C3_FreshHalfOpen ==
    currentState # StateHalfOpen /\ currentState' = StateHalfOpen =>
        successCount' = 0 /\ failureCount' = 0

\* C3: a breaker that becomes HalfOpen starts with both counters 0; a success
\* recorded in HalfOpen with success counter 0 leaves it HalfOpen (counter 1),
\* a success recorded with counter 1 closes it with both counters 0, and a
\* failure recorded in HalfOpen opens it and clears the success counter,
\* whatever that counter was.
C3_HalfOpenRecovery ==
    /\ [](currentState = StateHalfOpen => successCount \in {0, 1})
    /\ [][C3_FirstSuccess /\ C3_SecondSuccess /\ C3_Failure /\ C3_FreshHalfOpen]_vars

\* recovered: Open, HalfOpen, then Closed by two successes
C3_Witness ==
    /\ stateChanges = [n |-> 3, last |-> <<StateHalfOpen, StateClosed>>]
    /\ cbReturns.ok = 2
    /\ CBQuiescent

\* the transitions the breaker documents
DocumentedTransitions ==
    {<<StateClosed, StateOpen>>, <<StateOpen, StateHalfOpen>>,
     <<StateHalfOpen, StateClosed>>, <<StateHalfOpen, StateOpen>>}

\* C4: the state changes only along Closed->Open, Open->HalfOpen,
\* HalfOpen->Closed and HalfOpen->Open, and onStateChange is called with no
\* other pair.
C4_OnlyDocumentedTransitions ==
    [][/\ currentState' # currentState =>
            <<currentState, currentState'>> \in DocumentedTransitions
       /\ stateChanges'.n # stateChanges.n =>
            stateChanges'.last \in DocumentedTransitions]_vars

(***************************************************************************)
(* Nonce tracker: properties                                               *)
(***************************************************************************)
\* C5: when exactly one refetch has succeeded, returning (S, A), and no
\* IncrementAndGet returned before it, the k-th IncrementAndGet returns
\* sequence number S + k - 1 and account number A.
C5_SequenceAfterRefetch ==
    ntStats.refetches = 1 /\ ntStats.incsAtRefetch = 0 =>
        \A k \in 1..Len(issued) :
            issued[k] = [Nonce |-> ntStats.fetched.Nonce + k - 1,
                         Accnum |-> ntStats.fetched.Accnum]

\* one refetch, then three IncrementAndGet calls
C5_Witness ==
    /\ ntStats.refetches = 1 /\ ntStats.incsAtRefetch = 0
    /\ Len(issued) = 3
    /\ ntRet.call = "IncrementAndGet"
    /\ ntRet.nonce.Nonce = ntStats.fetched.Nonce + 2

\* C6: the sequence numbers IncrementAndGet returns between two successful
\* refetches are consecutive (so pairwise distinct, without gap), at most one
\* caller is inside IncrementAndGet or ForceRefetch at a time, and no caller
\* is inside IncrementAndGet while a refetch waits for its fetch.
C6_MutualExclusion ==
    /\ \A i \in 1..(Len(issued) - 1) : issued[i + 1].Nonce = issued[i].Nonce + 1
    /\ \A i, j \in 1..Len(issued) : i # j => issued[i].Nonce # issued[j].Nonce
    /\ Cardinality({p \in Procs : ntPc[p] # "idle"}) <= 1
    /\ Refetching => \A p \in Procs : ntPc[p] \notin {"increment", "incReturn"}
    /\ \A p \in Procs : ntPc[p] # "idle" => mu = p

\* two records issued, then a refetch waiting for its fetch while the other
\* caller cannot get in
C6_Witness ==
    /\ Len(issued) = 2
    /\ Blocked /\ ntFetching /\ ntSel = "none"
    /\ ~CanLock

\* a ForceRefetch call starts in this step
ForceRefetchBegins ==
    /\ ntCalls' = ntCalls + 1
    /\ \A p \in Procs : ntPc'[p] = "increment" => ntPc[p] = "increment"

\* C7: a ForceRefetch that starts with time.Since(lastRefetch) at most
\* forceRefetchInterval returns the throttling error and the zero record at
\* once, without calling fetchNonce and without changing the record or
\* lastRefetch.
C7_Throttled ==
    [][ForceRefetchBegins /\ Since(lastRefetch) <= forceRefetchInterval =>
        /\ ntRet'.call = "ForceRefetch"
        /\ ntRet'.err = ErrThrottled
        /\ ntRet'.nonce = ZeroNonce
        /\ ntStats'.fetchCalls = ntStats.fetchCalls
        /\ UNCHANGED <<nonceData, lastRefetch, isFirstFetch, ntPc, ntFetching, mu>>]_vars

\* throttled exactly one interval after a successful refetch
C7_Witness ==
    /\ ntRet = Returns("ForceRefetch", ntRet.by, ZeroNonce, ErrThrottled)
    /\ ntStats.refetches = 1
    /\ ntStats.fetchCalls = 1
    /\ nonceData = ntStats.fetched
    /\ Since(lastRefetch) = forceRefetchInterval

\* C8: a ForceRefetch whose scope expired or was cancelled before fetchNonce
\* had returned returns the scope's error and the zero record and leaves the
\* record and lastRefetch unchanged; a fetch that returns after its refetch
\* has returned changes nothing.
C8_TimeoutLeavesRecord ==
    [][/\ \A p \in Procs :
            ntPc[p] = "blocked" /\ ntPc'[p] = "idle" /\ ntCtx.early =>
                /\ ntRet' = Returns("ForceRefetch", p, ZeroNonce, ntCtx.err)
                /\ UNCHANGED <<nonceData, lastRefetch>>
       /\ lateFetches' < lateFetches => UNCHANGED <<nonceData, lastRefetch, ntRet>>]_vars


(***************************************************************************)
(* Asynchronous request processor: properties                              *)
(***************************************************************************)
\* a step that is one call of Submit
SubmitStep == submitted'.n = submitted.n + 1

\* the call put its request at the back of the input queue
Enqueued == requestChan' = Append(requestChan, submitted'.n)

\* the call passed its request to the waiting worker of an unbuffered processor
HandedOver ==
    /\ bufferSize = 0
    /\ wkPc = "loop"
    /\ wkPc' = "call"
    /\ wkReq' = submitted'.n
    /\ UNCHANGED requestChan

\* a call is never made to wait: Submit can return in every state
C9_NeverBlocks == submitted.n < MaxSubmits => ENABLED Submit

C9_WithinCapacity == Len(requestChan) <= bufferSize

C9_RoomAndRunning ==
    (Len(requestChan) < bufferSize /\ ~ctxDone) => (Enqueued /\ submitted'.ok)

C9_RejectedUnchanged == ~submitted'.ok /\ UNCHANGED <<requestChan, accepted>>

\* C9 as stated: Submit never blocks and returns true exactly when the item was
\* placed in the input queue; with room and no shutdown it enqueues and
\* returns true; with the queue at capacity it returns false and leaves the
\* queue unchanged; the queue never holds more than bufferSize.
C9_SubmitAsStated ==
    /\ [](C9_NeverBlocks /\ C9_WithinCapacity)
    /\ [][SubmitStep =>
            /\ submitted'.ok <=> Enqueued
            /\ C9_RoomAndRunning
            /\ Len(requestChan) >= bufferSize => C9_RejectedUnchanged]_vars

\* C9, amended: the same, but for a processor whose bufferSize is 0 a full
\* queue does not mean rejection: Submit returns true when it hands the
\* request to the worker waiting in its receive, and false otherwise; for
\* bufferSize >= 1 the statement holds as written.
C9_SubmitNonBlocking ==
    /\ [](C9_NeverBlocks /\ C9_WithinCapacity)
    /\ [][SubmitStep =>
            /\ submitted'.ok <=> (Enqueued \/ HandedOver)
            /\ submitted'.ok <=> (accepted' = Append(accepted, submitted'.n))
            /\ C9_RoomAndRunning
            /\ (Len(requestChan) >= bufferSize /\ bufferSize >= 1) => C9_RejectedUnchanged
            /\ (bufferSize = 0 /\ ~HandedOver) => C9_RejectedUnchanged]_vars

\* a running processor with a full queue of one has turned the second Submit away
C9_Witness ==
    /\ bufferSize = 1
    /\ ~ctxDone
    /\ requestChan = <<1>>
    /\ accepted = <<1>>
    /\ submitted = [n |-> 2, ok |-> FALSE, late |-> FALSE]

\* C10: once Stop has cancelled w.ctx, every Submit returns false and enqueues
\* nothing, whether or not the input queue has room.
C10_RejectsAfterStop ==
    [][(SubmitStep /\ ctxDone) => C9_RejectedUnchanged]_vars

\* Process has been called on the request with this ID
Attempted(id) == \E i \in 1..Len(attempts) : attempts[i].id = id

\* C11: no accepted item is dropped on shutdown: once the worker has exited,
\* Process has been called on every request for which Submit returned true,
\* and when Stop has returned the input queue is empty.
C11_NoAcceptedItemDropped ==
    wkPc = "exited" =>
        /\ \A i \in 1..Len(accepted) : Attempted(accepted[i])
        /\ stopPc = "returned" => requestChan = <<>>

\* how many times id occurs in the sequence q
Count(q, id) == Cardinality({i \in 1..Len(q) : q[i] = id})

\* Stop has returned on a started processor whose Submit calls all came
\* before Stop and were all accepted, no more of them than the capacity
C12_StoppedAfterSubmits ==
    /\ stopPc = "returned"
    /\ wkPc = "exited"
    /\ ~submitted.late
    /\ Len(accepted) = submitted.n
    /\ Len(accepted) <= bufferSize

\* C12: N <= capacity items accepted and Stop called right after: when Stop
\* has returned, the output queue has received exactly one result for each
\* item.
C12_OneResultEachAfterStop ==
    C12_StoppedAfterSubmits =>
        /\ \A i \in 1..Len(accepted) : Count(sent, accepted[i]) = 1
        /\ Len(sent) = Len(accepted)

\* the place of id in the order of acceptance (0 when it was not accepted)
AcceptedAt(id) ==
    IF \E i \in 1..Len(accepted) : accepted[i] = id
    THEN CHOOSE i \in 1..Len(accepted) : accepted[i] = id
    ELSE 0

\* C13: the worker processes the accepted requests in the order Submit
\* accepted them, none skipped and none taken twice, before and after
\* w.cancel(), and the results are sent on responseChan in that order.
C13_FifoOrder ==
    /\ attempts # <<>> => AcceptedAt(attempts[1].id) = 1
    /\ \A i \in 1..(Len(attempts) - 1) :
          \/ attempts[i + 1].id = attempts[i].id
          \/ AcceptedAt(attempts[i + 1].id) = AcceptedAt(attempts[i].id) + 1
    /\ \A i \in 1..Len(sent) : AcceptedAt(sent[i]) > 0
    /\ \A i, j \in 1..Len(sent) : i < j => AcceptedAt(sent[i]) < AcceptedAt(sent[j])

\* two requests were accepted, the first was processed before w.cancel() and
\* the second in the drain after it, and both results were sent
C13_Witness ==
    /\ accepted = <<1, 2>>
    /\ sent = <<1, 2>>
    /\ Len(attempts) >= 2
    /\ ~attempts[1].cancelled
    /\ attempts[Len(attempts)].cancelled
    /\ wkMode = "drain"

\* a step that is the call of Start
StartStep == wkPc = "none" /\ wkPc' # "none"

ResponseStep == wkPc = "send" /\ wkPc' # "send"

\* the requests whose processing is over
Finished ==
    {attempts[i].id : i \in 1..Len(attempts)} \ (IF wkReq = 0 THEN {} ELSE {wkReq})

\* C15: a request whose processing ends while w.ctx is not cancelled gets
\* exactly one response on responseChan, with its own ID and with its error,
\* nil exactly when the last call of Process succeeded, whatever the number of
\* attempts; no request gets two responses, and none that Process was not
\* called on gets one.
C15_OneResultPerProcessedItem ==
    /\ [](/\ \A i \in 1..Len(sent) : Count(sent, sent[i]) = 1 /\ Attempted(sent[i])
          /\ \A id \in Finished : Count(sent, id) + Count(dropped, id) = 1
          /\ ~ctxDone => dropped = <<>>
          /\ wkPc = "send" => (wkErr = NoErr <=> wkRetry.last = NoErr))
    /\ [][(ResponseStep /\ ~ctxDone) =>
            /\ sent' = Append(sent, wkReq)
            /\ UNCHANGED dropped
            /\ Attempted(wkReq)
            /\ bufferSize >= 1 =>
                 responseChan' =
                     Append(responseChan, [RequestID |-> wkReq, Error |-> wkErr])]_vars

\* a running processor has delivered the one response of a request that
\* succeeded at its second attempt
C15_Witness ==
    /\ ~ctxDone
    /\ Len(attempts) = 2
    /\ attempts[1].id = 1
    /\ attempts[2].id = 1
    /\ sent = <<1>>
    /\ responseChan = <<[RequestID |-> 1, Error |-> NoErr]>>

\* how many times Process was called on the request with this ID
AttemptsOn(id) == Cardinality({i \in 1..Len(attempts) : attempts[i].id = id})

\* C16: on a processor built with a nil retry config the worker never
\* crashes, and each request it has received has Process called on it exactly
\* once before its response is sent or given up.
C16_NilRetryConfigCallsOnce ==
    retryConfig.nil =>
        /\ wkPc # "panicked"
        /\ wkPc = "send" => AttemptsOn(wkReq) = 1
        /\ \A i \in 1..Len(sent) : AttemptsOn(sent[i]) = 1

\* a response is sent on responseChan in this step
SendStep == sent' # sent

\* C17: Stop returns, and responseChan is closed, only after the worker has
\* exited; nothing is sent on responseChan once it is closed; the responses
\* buffered at the close can still be received, and a consumer finds the
\* channel closed only after it has received them all.
C17_CloseAfterWorkerExit ==
    /\ [](/\ responseClosed <=> stopPc = "returned"
          /\ responseClosed => wg = 0
          /\ responseClosed => wkPc \in {"none", "exited", "panicked"}
          /\ (responseClosed /\ responseChan # <<>>) => ENABLED Consume
          /\ closeSeen => (responseClosed /\ responseChan = <<>>))
    /\ [][responseClosed => ~SendStep]_vars
    /\ [][responseClosed => (responseChan' = responseChan \/ responseChan' = Tail(responseChan))]_vars

\* the worker sent a response before shutdown, exited in the drain, Stop
\* closed the channel with the response still buffered, and the consumer
\* received it and then found the channel closed
C17_Witness ==
    /\ wkPc = "exited"
    /\ stopPc = "returned"
    /\ sent = <<1>>
    /\ closeSeen
    /\ responseChan = <<>>
    /\ bufferSize >= 1

\* C18: Stop, once called, eventually returns, given that the worker is
\* scheduled and every call of Process returns, also when responseChan is
\* full and nobody receives from it.
C18_StopReturns == (stopPc = "waiting") ~> (stopPc = "returned")

(***************************************************************************)
(* Circuit breaker: what Execute returns, and the failure counter          *)
(***************************************************************************)
\* caller p returns from an admitted Execute in this step
ReturnsResult(p) == cbPc[p] = "handleResult" /\ cbPc'[p] = "idle"

\* C19: an admitted Execute returns exactly what its operation returned, nil
\* or the same error, in every state and whatever transition the outcome
\* causes; the only other value Execute returns is the rejection error, and
\* then the operation was not invoked.
C19_ReturnsOperationResult ==
    /\ [][\A p \in Procs : ReturnsResult(p) =>
              /\ cbInvoked[p]
              /\ cbRet'[p] = cbErr[p]
              /\ cbRet'[p] \in Outcomes]_vars
    /\ [][\A p \in Procs : (cbRet'[p] # cbRet[p] /\ ~ReturnsResult(p)) =>
              \/ cbRet'[p] = "none" /\ Begins
              \/ cbRet'[p] = ErrCircuitOpen /\ Rejected /\ ~cbInvoked'[p]]_vars
    /\ [](\A p \in Procs : (cbPc[p] = "idle" /\ cbRet[p] # "none") =>
              IF cbInvoked[p] THEN cbRet[p] \in Outcomes ELSE cbRet[p] = ErrCircuitOpen)

\* the failure that opened the breaker was returned to its caller as it was,
\* and the other caller was then rejected without its operation running
C19_Witness ==
    /\ currentState = StateOpen
    /\ stateChanges.last = <<StateClosed, StateOpen>>
    /\ cbRet[1] = "e2" /\ cbInvoked[1]
    /\ cbRet[2] = ErrCircuitOpen /\ ~cbInvoked[2]
    /\ CBQuiescent

\* C20: a success recorded in Closed sets failureCount to 0 and leaves the
\* breaker Closed, so that failureCount is the length of the current run of
\* failures; a breaker leaves Closed for the first time only for Open, and
\* only when a failure brings that run to failureThreshold: while every run
\* of failures is shorter, it stays Closed with no transition.
C20_OnlyConsecutiveFailuresOpen ==
    /\ [][\A p \in Procs : (RecordsSuccess(p) /\ currentState = StateClosed) =>
              /\ failureCount' = 0
              /\ currentState' = StateClosed
              /\ stateChanges' = stateChanges]_vars
    /\ [](stateChanges.n = 0 =>
              /\ currentState = StateClosed
              /\ failureCount = cbReturns.run
              /\ cbReturns.run < failureThreshold)
    /\ [][(stateChanges.n = 0 /\ stateChanges'.n > 0) =>
              /\ \E p \in Procs : RecordsFailure(p)
              /\ cbReturns'.run >= failureThreshold
              /\ currentState' = StateOpen]_vars

\* with threshold 2: failure, success, failure, success, failure leaves the
\* breaker Closed with one failure counted, though three failures were recorded
C20_Witness ==
    /\ failureThreshold = 2
    /\ cbReturns = [ok |-> 2, failed |-> 3, rejected |-> 0, run |-> 1]
    /\ currentState = StateClosed
    /\ failureCount = 1
    /\ stateChanges.n = 0
    /\ CBQuiescent

\* caller p asks for HalfOpen in this step (toHalfOpen after allowRequest
\* found the breaker Open and the timeout exceeded)
AsksHalfOpen(p) == cbPc[p] = "toHalfOpen" /\ cbPc'[p] = "operation"

\* C21: every change of currentState calls onStateChange exactly once, with
\* the states before and after, which differ, and sets both counters to 0; a
\* step that leaves the state alone calls no onStateChange, and a request
\* for the current state changes no field at all. A run of failureThreshold
\* failures from a fresh breaker fires one callback, (Closed, Open).
C21_StateChangeCallback ==
    /\ [][currentState' # currentState =>
              /\ stateChanges'.n = stateChanges.n + 1
              /\ stateChanges'.last = <<currentState, currentState'>>
              /\ failureCount' = 0
              /\ successCount' = 0]_vars
    /\ [][currentState' = currentState => stateChanges' = stateChanges]_vars
    /\ [][\A p \in Procs : (AsksHalfOpen(p) /\ currentState = StateHalfOpen) =>
              UNCHANGED <<currentState, failureCount, successCount, stateChanges>>]_vars
    /\ [](stateChanges.n > 0 => stateChanges.last[1] # stateChanges.last[2])
    /\ [](OnlyFailures(failureThreshold) /\ CBQuiescent =>
              stateChanges = [n |-> 1, last |-> <<StateClosed, StateOpen>>])

\* threshold 2: the second failure opened the breaker, fired the one
\* callback and reset the failure counter
C21_Witness ==
    /\ failureThreshold = 2
    /\ OnlyFailures(2)
    /\ CBQuiescent
    /\ stateChanges = [n |-> 1, last |-> <<StateClosed, StateOpen>>]
    /\ failureCount = 0
    /\ successCount = 0

\* C22: onError is called exactly once, with the error the operation
\* returned, for every admitted Execute whose operation failed, in whatever
\* state the failure is recorded and whether or not it changes the state;
\* it is not called for a success nor for a rejected Execute.
C22_OnErrorPerFailure ==
    /\ [][\A p \in Procs : RecordsFailure(p) =>
              errorsSeen' = [n |-> errorsSeen.n + 1, last |-> cbErr[p]]]_vars
    /\ [][errorsSeen' # errorsSeen => \E p \in Procs : RecordsFailure(p)]_vars
    /\ [][(Rejected \/ \E p \in Procs : RecordsSuccess(p)) =>
              errorsSeen' = errorsSeen]_vars
    /\ [](errorsSeen.n = cbReturns.failed)

\* threshold 1: the first failure opened the breaker, and the failure of a
\* call admitted before that was recorded while it was Open; onError saw both
C22_Witness ==
    /\ failureThreshold = 1
    /\ currentState = StateOpen
    /\ stateChanges.n = 1
    /\ cbReturns = [ok |-> 0, failed |-> 2, rejected |-> 0, run |-> 2]
    /\ errorsSeen = [n |-> 2, last |-> "e2"]
    /\ failureCount = 1

\* ---------------------------------------------------------------------
\* Circuit breaker: operations that never fail, and construction
\* ---------------------------------------------------------------------

\* no operation has returned an error so far
NeverFailed == cbReturns.failed = 0 /\ \A p \in Procs : cbErr[p] = NoErr

\* C23: as long as no operation has failed, every Execute on a fresh
\* breaker is admitted however the callers interleave, none returns an
\* error, and the breaker is Closed.
C23_NeverFailingStaysClosed ==
    /\ [](NeverFailed =>
              /\ currentState = StateClosed
              /\ failureCount = 0
              /\ stateChanges.n = 0
              /\ cbReturns.rejected = 0
              /\ \A p \in Procs : /\ cbRet[p] \in {"none", NoErr}
                                  /\ cbPc[p] \in {"idle", "operation", "handleResult"})
    /\ [][\A p \in Procs : (NeverFailed /\ Begins /\ cbPc[p] = "idle" /\ cbPc'[p] # "idle")
              => cbPc'[p] = "operation"]_vars

\* every call of the bound has returned nil, the last two after running
\* side by side
C23_Witness ==
    /\ NeverFailed
    /\ cbCalls = MaxCalls
    /\ cbReturns.ok = MaxCalls - NumProcs
    /\ \A p \in Procs : cbPc[p] = "handleResult"
    /\ currentState = StateClosed

\* C24: New never fails; a FailureThreshold <= 0 becomes 5 and a
\* ResetTimeout <= 0 becomes 60 seconds, positive values are kept, the
\* breaker starts Closed with both counters 0, and a breaker with the
\* default threshold opens after exactly 5 consecutive failures.
C24_ConstructionDefaults ==
    /\ \A opt \in FailureThresholdOptions :
           NewFailureThreshold(opt) = IF opt <= 0 THEN 5 ELSE opt
    /\ \A opt \in ResetTimeoutOptions :
           NewResetTimeout(opt) = IF opt <= 0 THEN 60 ELSE opt
    /\ failureThreshold \in {5} \cup {opt \in FailureThresholdOptions : opt > 0}
    /\ resetTimeout \in {60} \cup {opt \in ResetTimeoutOptions : opt > 0}
    /\ cbCalls = 0 =>
           /\ currentState = StateClosed
           /\ failureCount = 0
           /\ successCount = 0
           /\ stateChanges.n = 0
    /\ \A n \in 0..MaxCalls :
           (failureThreshold = 5 /\ OnlyFailures(n) /\ CBQuiescent) =>
               currentState = IF n < 5 THEN StateClosed ELSE StateOpen

\* a breaker built with the defaults has just opened on its fifth failure
C24_Witness ==
    /\ failureThreshold = 5
    /\ resetTimeout = 60
    /\ OnlyFailures(5)
    /\ CBQuiescent
    /\ currentState = StateOpen
    /\ stateChanges = [n |-> 1, last |-> <<StateClosed, StateOpen>>]

(***************************************************************************)
(* Nonce tracker: construction and the outcomes of a refetch               *)
(***************************************************************************)
\* C25: NewNonceTracker calls no fetch; until a refetch succeeds
\* GetLastRefetchTime is the zero time, and the first IncrementAndGet with
\* no refetch before it returns the zero record {0, 0}.
C25_NoFetchAtConstruction ==
    /\ ntCalls = 0 =>
           /\ ntStats.fetchCalls = 0
           /\ lastRefetch = 0
           /\ nonceData = ZeroNonce
           /\ isFirstFetch
    /\ ntStats.refetches = 0 =>
           /\ lastRefetch = 0
           /\ Len(issued) >= 1 => issued[1] = ZeroNonce

\* the first call on a new tracker was IncrementAndGet; it returned {0, 0}
C25_Witness ==
    /\ ntCalls = 1
    /\ ntStats.fetchCalls = 0
    /\ lastRefetch = 0
    /\ ntRet.call = "IncrementAndGet"
    /\ ntRet.nonce = ZeroNonce
    /\ issued = <<ZeroNonce>>
    /\ ~isFirstFetch

\* the refetch of caller p returns in this step
RefetchReturns(p) == ntPc[p] = "blocked" /\ ntPc'[p] = "idle"

\* fetchNonce has returned a record without error, and the scope's timeout
\* had not expired when it did (nor has the caller cancelled the scope)
FetchedInTime ==
    /\ ntCh # <<>>
    /\ ntCh[1].err = NoErr
    /\ ntCtx.err # ErrCanceled
    /\ ~ntCtx.early

\* C26: a ForceRefetch that passed the throttle and whose fetch returned
\* record R without error before the timeout stores R, sets lastRefetch to
\* the current time, later than its previous value, and returns R.
C26_SuccessfulRefetch ==
    [][\A p \in Procs : RefetchReturns(p) /\ FetchedInTime =>
           /\ nonceData' = ntCh[1].nonce
           /\ lastRefetch' = now
           /\ lastRefetch' > lastRefetch
           /\ ntRet' = Returns("ForceRefetch", p, ntCh[1].nonce, NoErr)]_vars

\* fetchNonce has returned an error, and the scope's timeout had not expired
\* when it did (nor has the caller cancelled the scope)
FetchFailedInTime ==
    /\ ntCh # <<>>
    /\ ntCh[1].err # NoErr
    /\ ntCtx.err # ErrCanceled
    /\ ~ntCtx.early

TookResult == ntSel = "ch"

DirectCall(name) ==
    ntCalls' = ntCalls + 1 /\ ntPc' = ntPc /\ ntRet'.call = name
UpdateStep == DirectCall("ForceUpdateNonce")
CurrentStep == DirectCall("GetCurrentNonce")

\* C28: ForceUpdateNonce(n) sets the stored sequence number to n, needs the
\* lock, goes ahead whatever the time since the last refetch and leaves
\* lastRefetch and the account number alone; GetCurrentNonce returns the
\* stored record, needs the lock, and changes nothing; so GetCurrentNonce
\* right after ForceUpdateNonce(n) returns sequence number n.
C28_DirectSetterAndGetter ==
    /\ [][UpdateStep =>
             /\ nonceData'.Nonce = ntStats'.updated
             /\ nonceData'.Accnum = nonceData.Accnum
             /\ ntStats'.updated \in UpdateNonces
             /\ ntStats'.fetchCalls = ntStats.fetchCalls
             /\ CanLock
             /\ UNCHANGED <<lastRefetch, isFirstFetch>>]_vars
    /\ [][CurrentStep =>
             /\ ntRet'.nonce = nonceData
             /\ CanLock
             /\ UNCHANGED <<nonceData, lastRefetch, isFirstFetch>>]_vars
    /\ [][CurrentStep /\ ntRet.call = "ForceUpdateNonce" =>
             ntRet'.nonce.Nonce = ntStats.updated]_vars
    /\ [](\A p \in Procs :
             (ntPc[p] = "idle" /\ CanLock /\ ntCalls < MaxNtCalls) =>
                 ENABLED ForceUpdateNonce(p))

\* within the throttle interval of a successful refetch that returned
\* {10, 1}, ForceUpdateNonce(30) and then GetCurrentNonce, which returned
\* {30, 1}; lastRefetch is still that of the refetch
C28_Witness ==
    /\ ntRet.call = "GetCurrentNonce"
    /\ ntRet.nonce = [Nonce |-> 30, Accnum |-> 1]
    /\ ntStats.updated = 30
    /\ ntStats.refetches = 1
    /\ ntStats.fetched = [Nonce |-> 10, Accnum |-> 1]
    /\ ntCalls = 3
    /\ Since(lastRefetch) <= forceRefetchInterval
    /\ nonceData = ntRet.nonce

(***************************************************************************)
(* Retry with backoff: properties                                          *)
(***************************************************************************)
\* operation(ctx) returns in this step
OperationReturned == rtLocal.pc = "operation" /\ rtLocal'.pc # "operation"

\* C29: RetryWithBackoff returns nil as soon as an attempt returns nil, and
\* never calls the operation after it has returned; so at most one attempt
\* ever returns nil, and an operation that succeeds at its first attempt is
\* called exactly once.
C29_ReturnsAtFirstSuccess ==
    /\ [][OperationReturned /\ rtLocal'.err.nil =>
              /\ rtLocal'.pc = "returned"
              /\ rtRet' = NilError
              /\ rtLog'.calls = rtLog.calls]_vars
    /\ [][rtLocal.pc = "returned" => UNCHANGED <<rtLocal, rtRet, rtLog>>]_vars
    /\ [](rtLog.oks <= 1)
    /\ [](rtLog.oks = 1 => rtLocal.pc = "returned" /\ rtRet = NilError)
    /\ [](rtLocal.pc = "returned" /\ rtRet.nil => rtLog.oks = 1)
    /\ [][OperationReturned /\ rtLog.calls = 1 /\ rtLocal'.err.nil =>
              rtLog'.calls = 1 /\ rtLocal'.pc = "returned"]_vars

\* the second attempt, made after a wait, returned nil, and so did the call
C29_Witness ==
    /\ rtLocal.pc = "returned"
    /\ rtRet = NilError
    /\ rtLog.calls = 2
    /\ rtLog.oks = 1
    /\ rtLocal.interval = 2
    /\ now > StartTime

\* err's text contains one of the patterns, letter case apart
MatchesAny(err, patterns) ==
    LET SameLetter(c, d) == c = d \/ {c, d} \in {{"a", "A"}, {"b", "B"}}
        MatchesAt(text, pattern, i) ==
            \A k \in 1..Len(pattern) : SameLetter(text[i + k - 1], pattern[k])
        ContainedIn(text, pattern) ==
            \E i \in 1..(Len(text) - Len(pattern) + 1) : MatchesAt(text, pattern, i)
    IN  \E k \in 1..Len(patterns) : ContainedIn(err.text, patterns[k])

\* operation(ctx) returns an error in this step
OperationFailed == OperationReturned /\ ~rtLocal'.err.nil

\* C30: an attempt's error whose text contains one of the patterns, letter
\* case apart, ends the call at once: the call returns that very error, not
\* wrapped, without entering the select and without another attempt (one
\* call of the operation when it is the first attempt). No other error is
\* classified non-retriable; in particular none is when the error is nil or
\* the pattern list is empty.
C30_NonRetriableReturnsAtOnce ==
    /\ [][OperationFailed /\ MatchesAny(rtLocal'.err, rtArgs.patterns) =>
              /\ rtLocal'.pc = "returned"
              /\ rtRet' = rtLocal'.err
              /\ ~rtRet'.wraps
              /\ rtLog'.calls = rtLog.calls /\ rtLog'.oks = rtLog.oks
              /\ now' = now]_vars
    /\ [][OperationFailed /\ ~MatchesAny(rtLocal'.err, rtArgs.patterns) =>
              rtLocal'.pc = "select" /\ rtRet' = rtRet]_vars
    /\ [][rtLocal.pc = "returned" => rtLog' = rtLog]_vars
    /\ [](rtLog.calls = 0 =>      \* (a fact about the arguments: read once)
              /\ \A err \in OperationResults :
                     isNonRetriable(err, rtArgs.patterns) <=>
                         (~err.nil /\ MatchesAny(err, rtArgs.patterns))
              /\ ~isNonRetriable(NilError, rtArgs.patterns)
              /\ \A err \in OperationResults : ~isNonRetriable(err, <<>>))

\* the first attempt returned "AA"; the second of the patterns "b", "a"
\* matches it, and the call returned that error after one call, at once
C30_Witness ==
    /\ rtArgs.patterns = << <<"b">>, <<"a">> >>
    /\ rtLocal.pc = "returned"
    /\ rtRet = NewError(<<"A", "A">>)
    /\ rtLog.calls = 1
    /\ rtLog.oks = 0
    /\ now = StartTime

\* the call has returned the error of the overall timer, which it does only
\* after attempts that all failed with a retriable error
TimedOutReturn == rtLocal.pc = "returned" /\ rtRet.wraps

SelectResolved == rtLocal.pc = "select" /\ rtLocal'.pc # "select"

\* C32: when the scope is cancelled by the time the select after a failed
\* attempt is resolved, the call returns the scope's cancellation error
\* itself, also when the overall timer has expired as well.
C32_CancellationWins ==
    [][SelectResolved /\ rtCtxDone =>
           rtLocal'.pc = "returned" /\ rtRet' = CanceledError]_vars

\* C33: when the overall timer has expired in the wait after a failed attempt,
\* the wait's own interval has not, and the scope is not cancelled, the call
\* returns; the error it returns on the timer wraps the error of the attempt
\* that has just failed, and the operation is not called again.
C33_TimeoutWrapsLatestError ==
    /\ [][SelectResolved /\ ~rtCtxDone /\ now >= rtLocal.timer /\ now < rtLocal.after =>
              rtLocal'.pc = "returned" /\ rtRet'.wraps]_vars
    /\ [][SelectResolved /\ ~rtCtxDone /\ rtLocal'.pc = "returned" =>
              /\ ~rtLocal.err.nil
              /\ rtRet'.wraps
              /\ rtRet'.text = <<"t", ":">> \o rtLocal.err.text
              /\ now >= rtLocal.timer
              /\ rtLog' = rtLog]_vars
    /\ [][rtLocal.pc = "returned" => rtLog' = rtLog /\ rtRet' = rtRet]_vars

\* the first attempt failed with "a", the second with "bB"; the timer ended
\* the wait after the second, and the error returned wraps "bB"
C33_Witness ==
    /\ rtLog.firstA
    /\ rtLog.calls = 2
    /\ ~rtCtxDone
    /\ rtLocal.pc = "returned"
    /\ rtLocal.err = NewError(<<"b", "B">>)
    /\ rtRet = [nil |-> FALSE, text |-> <<"t", ":", "b", "B">>, wraps |-> TRUE]

\* the callers whose operation has been admitted and whose result is not yet handled
Probing == {p \in Procs : cbPc[p] \in {"operation", "handleResult"}}

\* C34: in HalfOpen every Execute is admitted, however many admitted
\* operations are running; a failure recorded in HalfOpen opens the breaker
\* whatever the other running operations return; and a success recorded
\* while the breaker is Open changes neither the state nor a counter.
C34_ConcurrentProbes ==
    /\ [][currentState = StateHalfOpen /\ Begins =>
              /\ ~Rejected
              /\ Probing' # Probing /\ Probing \subseteq Probing'
              /\ UNCHANGED <<currentState, failureCount, successCount>>]_vars
    /\ [][\A p \in Procs : RecordsFailure(p) /\ currentState = StateHalfOpen =>
              /\ currentState' = StateOpen
              /\ failureCount' = 0 /\ successCount' = 0
              /\ stateChanges'.last = <<StateHalfOpen, StateOpen>>]_vars
    /\ [][\A p \in Procs : RecordsSuccess(p) /\ currentState = StateOpen =>
              UNCHANGED <<currentState, failureCount, successCount, lastFailureTime,
                          stateChanges>>]_vars

\* a probe failed in HalfOpen and reopened the breaker while the other
\* admitted operations were running; one of them has succeeded and is about
\* to record its success in the reopened breaker
C34_Witness ==
    /\ currentState = StateOpen
    /\ stateChanges.last = <<StateHalfOpen, StateOpen>>
    /\ cbReturns.failed > failureThreshold
    /\ cbReturns.ok = 0
    /\ Cardinality(Probing) = NumProcs - 1
    /\ \E p \in Procs : cbPc[p] = "handleResult" /\ cbErr[p] = NoErr

\* min(initialInterval + (k-1) * intervalIncrement, maxInterval)
ExpectedWait(k, cfg) ==
    LET grown == cfg.InitialInterval + (k - 1) * cfg.IntervalIncrement
    IN  IF grown < cfg.MaxInterval THEN grown ELSE cfg.MaxInterval

\* the configuration's cap is not below its first interval
CapAtLeastInitial == rtArgs.cfg.MaxInterval >= rtArgs.cfg.InitialInterval

\* C35: with maxInterval >= initialInterval, the wait after the k-th failed
\* attempt is min(initialInterval + (k-1) * intervalIncrement, maxInterval):
\* time.After is armed with it, and the interval never decreases and never
\* exceeds maxInterval.
C35_IntervalGrowth ==
    /\ [](CapAtLeastInitial /\ rtLocal.pc = "select" =>
              rtLocal.interval = ExpectedWait(rtLog.calls, rtArgs.cfg))
    /\ [][CapAtLeastInitial /\ OperationFailed /\ rtLocal'.pc = "select" =>
              rtLocal'.after = now + ExpectedWait(rtLog.calls, rtArgs.cfg)]_vars
    /\ [][CapAtLeastInitial =>
              /\ rtLocal'.interval >= rtLocal.interval
              /\ rtLocal'.interval <= rtArgs.cfg.MaxInterval]_vars

\* the third attempt has failed: the interval grew from 1 to 2 after the
\* first, and the cap of 2 held it there after the second
C35_Witness ==
    /\ rtArgs.cfg.InitialInterval = 1 /\ rtArgs.cfg.IntervalIncrement = 1
    /\ rtArgs.cfg.MaxInterval = 2
    /\ rtLocal.pc = "select"
    /\ rtLog.calls = 3
    /\ rtLocal.interval = 2
    /\ rtLocal.after = now + 2

\* C36: whoever holds no lock sees a breaker in which a Closed state has
\* 0 <= failureCount < failureThreshold, successCount is 0 or 1 and is
\* non-zero only in HalfOpen; and every step that changes the state leaves
\* both counters at 0.
C36_CounterInvariant ==
    /\ [](currentState = StateClosed =>
              failureCount >= 0 /\ failureCount < failureThreshold)
    /\ [](successCount \in {0, 1})
    /\ [](successCount # 0 => currentState = StateHalfOpen)
    /\ [][currentState' # currentState =>
              failureCount' = 0 /\ successCount' = 0]_vars

\* a breaker that opened, recovered through two probes and has since counted
\* one failure below its threshold of 2
C36_Witness ==
    /\ failureThreshold = 2
    /\ currentState = StateClosed
    /\ stateChanges = [n |-> 3, last |-> <<StateHalfOpen, StateClosed>>]
    /\ failureCount = 1
    /\ successCount = 0

\* C37: a failure recorded while the breaker is Open changes no state and
\* calls no onStateChange, adds 1 to failureCount and sets lastFailureTime to
\* now; from then on the breaker rejects every call until more than
\* resetTimeout has passed since that failure.
C37_LateFailureExtendsOpen ==
    /\ [][\A p \in Procs : RecordsFailure(p) /\ currentState = StateOpen =>
              /\ currentState' = StateOpen
              /\ stateChanges' = stateChanges
              /\ successCount' = successCount
              /\ failureCount' = failureCount + 1
              /\ lastFailureTime' = now]_vars
    /\ [][Begins /\ currentState = StateOpen /\ now - lastFailureTime <= resetTimeout =>
              Rejected /\ currentState' = StateOpen]_vars
    /\ [][Begins /\ currentState = StateOpen /\ now - lastFailureTime > resetTimeout =>
              ~Rejected]_vars

\* the breaker opened once; a failure of an operation admitted before that
\* was recorded at StartTime + 1 and counted while Open; one tick later the
\* breaker is still Open and a call has been rejected
C37_Witness ==
    /\ resetTimeout = 1
    /\ currentState = StateOpen
    /\ stateChanges.n = 1
    /\ failureCount = 1
    /\ lastFailureTime = StartTime + 1
    /\ now = StartTime + 2
    /\ cbReturns.failed = failureThreshold + 1
    /\ cbReturns.rejected = 1
    /\ \E p \in Procs : cbRet[p] = ErrCircuitOpen

\* C38: the first IncrementAndGet clears the first-fetch flag and nothing
\* sets it again; once IncrementAndGet has returned at least once, the calls
\* that follow a successful ForceRefetch returning sequence number S return
\* S + 1, S + 2, ..., so S itself is not handed out.
C38_ExemptionConsumedOnce ==
    /\ [](ntStats.incs >= 1 => ~isFirstFetch)
    /\ [][~isFirstFetch => ~isFirstFetch']_vars
    /\ [](ntStats.refetches >= 1 /\ ntStats.incsAtRefetch >= 1 =>
              \A i \in 1..Len(issued) :
                  /\ issued[i].Nonce = ntStats.fetched.Nonce + i
                  /\ issued[i].Nonce # ntStats.fetched.Nonce)

\* IncrementAndGet was called before the tracker's only successful refetch,
\* which returned 10; the call after it got 11
C38_Witness ==
    /\ ntStats.refetches = 1
    /\ ntStats.incsAtRefetch = 1
    /\ ntStats.fetched.Nonce = 10
    /\ Len(issued) = 1
    /\ issued[1].Nonce = 11
    /\ ntRet.call = "IncrementAndGet" /\ ntRet.nonce.Nonce = 11

\* a ForceRefetch by p that went past the throttle returns in this step
\* without having stored a record
RefetchFails(p) == RefetchReturns(p) /\ ntRet'.err # NoErr

\* C39: a ForceRefetch that fails with a fetch error, a timeout or a
\* cancellation leaves lastRefetch (and the record) unchanged, and only a
\* successful refetch writes lastRefetch; so a ForceRefetch that was not
\* throttled and failed is followed by one that is not throttled either and
\* calls the fetch function again.
C39_OnlySuccessStartsWindow ==
    /\ [][\A p \in Procs : RefetchFails(p) =>
              /\ lastRefetch' = lastRefetch
              /\ nonceData' = nonceData
              /\ mayRefetch(now - lastRefetch', forceRefetchInterval)]_vars
    /\ [][lastRefetch' # lastRefetch =>
              /\ ntRet'.call = "ForceRefetch" /\ ntRet'.err = NoErr
              /\ lastRefetch' = now]_vars
    /\ [][/\ ForceRefetchBegins
           /\ ntRet.call = "ForceRefetch"
           /\ ntRet.err \in {ErrFetch, ErrDeadline, ErrCanceled}
           => /\ ntStats'.fetchCalls = ntStats.fetchCalls + 1
              /\ ntRet' = ntRet
              /\ \E p \in Procs : ntPc[p] = "idle" /\ ntPc'[p] = "select"]_vars

\* the refetch at StartTime succeeded; a later one got past the throttle and
\* failed with the fetch's error, lastRefetch still says StartTime, and the
\* ForceRefetch after it has called the fetch function again
C39_Witness ==
    /\ ntStats.refetches = 1
    /\ lastRefetch = StartTime
    /\ ntStats.fetchCalls = 3
    /\ ntRet.call = "ForceRefetch" /\ ntRet.err = ErrFetch
    /\ \E p \in Procs : ntPc[p] \in {"select", "blocked"}

\* the worker is handling an item it took in the drain loop, after w.ctx was
\* cancelled, with a retry policy configured
HandlesDrained ==
    /\ ~retryConfig.nil
    /\ wkMode = "drain"
    /\ wkPc \in {"call", "attempt", "processing", "backoff", "send"}

\* C40: an item taken in the drain loop with a retry policy configured gets
\* one call of Process, under a cancelled w.ctx; when that call fails the
\* item is not tried again and the error of its response is the
\* cancellation error of w.ctx.
C40_DrainedItemsOneAttempt ==
    /\ [](HandlesDrained => ctxDone /\ wkRetry.attempts <= 1)
    /\ [](HandlesDrained /\ wkPc \in {"processing", "backoff", "send"} =>
              /\ wkRetry.attempts = 1
              /\ attempts[Len(attempts)] = [id |-> wkReq, cancelled |-> TRUE])
    /\ [](HandlesDrained /\ wkPc = "send" /\ wkRetry.last # NoErr =>
              wkErr = ErrCanceled)
    /\ [][HandlesDrained /\ wkPc = "backoff" /\ wkPc' # "backoff" =>
              wkPc' = "send" /\ wkErr' = ErrCanceled]_vars

====
